---- MODULE Spec2Model ----
(***************************************************************************)
(* Model of the data-quality, anomaly-detection and profiling tools of     *)
(* mcp-data-detective (src/data_detective/tools/quality.py, profile.py)    *)
(* together with the identifier and path validation (validation.py), the   *)
(* source registry (sources/registry.py), export_data (tools/export.py)    *)
(* and the recipe store of the chart tool (tools/chart.py).                *)
(*                                                                         *)
(* Representation.                                                         *)
(*  - Text (identifiers, type names, SQL text) is a sequence of            *)
(*    one-character strings, so that lower(), endswith() and the substring *)
(*    tests of the code are computed and not assumed.                      *)
(*  - A SQL value is NULL (the empty tuple) or <<v>> with v an integer.    *)
(*    Text values are represented by integer codes; the only operation the *)
(*    tools apply to them is equality.                                     *)
(*  - A relation is a bag of rows (SQL relations are multisets); a row is  *)
(*    a tuple of values in schema order.                                   *)
(*  - Means, standard deviations and z-scores are kept exact: a standard   *)
(*    deviation is represented by N and Q = SUM (N*v - S)^2 and every      *)
(*    comparison |z| >= t is decided on squares by cross multiplication.   *)
(*    The value and threshold domains below were chosen so that IEEE       *)
(*    double arithmetic, as the Python code performs it, gives the same    *)
(*    decisions on them.                                                   *)
(***************************************************************************)
EXTENDS Integers, Sequences, FiniteSets, Bags, TLC

VARIABLES
    relname,   \* name of the relation in the backend catalog
    schema,    \* its columns, as DESCRIBE returns them: <<[column, type]>>
    rows,      \* its contents, a bag of rows
    call,      \* the last tool call and its arguments
    result,    \* what that call returned
    stmts,     \* the statements that call sent to the backend, in order
    zdivs,     \* number of divisions by stddev or row_count that call performed itself
    catalog,   \* the other relations of the backend catalog, by name
    registry,  \* SourceRegistry._sources, in insertion order
    files,     \* the files of the file system, by resolved path
    history,   \* RecipeStore._history of one store
    max_history   \* RecipeStore._max_history of that store

vars == <<relname, schema, rows, call, result, stmts, zdivs, catalog, registry, files, history, max_history>>

-----------------------------------------------------------------------------
(* Bounds *)

MaxRows == 3          \* rows of a table in the quality specification
MaxNullRows == 21     \* rows of a table in the null-rate specification
MaxTimeRows == 4      \* rows of a table in the time-aggregated specification
MaxRowLevelRows == 4  \* rows of a small table in the row-level specification
MaxBulkRows == 102    \* rows of a large table in the row-level specification
MaxDistinctRows == 100   \* distinct rows of a table with duplicate groups
MaxDupGroups == 2        \* duplicate groups of one kind in such a table
MaxSummaryRows == 4      \* rows of a table of the summarized database
MaxIdentifierRows == 1   \* rows of the view the tools are called on with any identifiers
MaxDays == 10            \* day buckets of a long daily series
MaxHistory == 3          \* largest max_history of a recipe store
MaxPushes == 5           \* recipes pushed to a recipe store

-----------------------------------------------------------------------------
(* Text *)

None == <<>>          \* Python None / empty string: both are falsy

LowerCase ==
    [c \in {"A","B","C","D","E","F","G","H","I","J","K","L","M",
            "N","O","P","Q","R","S","T","U","V","W","X","Y","Z"} |->
       CASE c = "A" -> "a" [] c = "B" -> "b" [] c = "C" -> "c" [] c = "D" -> "d"
         [] c = "E" -> "e" [] c = "F" -> "f" [] c = "G" -> "g" [] c = "H" -> "h"
         [] c = "I" -> "i" [] c = "J" -> "j" [] c = "K" -> "k" [] c = "L" -> "l"
         [] c = "M" -> "m" [] c = "N" -> "n" [] c = "O" -> "o" [] c = "P" -> "p"
         [] c = "Q" -> "q" [] c = "R" -> "r" [] c = "S" -> "s" [] c = "T" -> "t"
         [] c = "U" -> "u" [] c = "V" -> "v" [] c = "W" -> "w" [] c = "X" -> "x"
         [] c = "Y" -> "y" [] c = "Z" -> "z"]

\* str.lower()
Lower(s) == [i \in 1..Len(s) |-> IF s[i] \in DOMAIN LowerCase THEN LowerCase[s[i]] ELSE s[i]]

\* sub occurs in s at position i
OccursAt(s, sub, i) == \A j \in 1..Len(sub) : s[i + j - 1] = sub[j]

\* sub in s
Contains(s, sub) == \E i \in 1..(Len(s) - Len(sub) + 1) : OccursAt(s, sub, i)

\* f'"{name}"'
Quoted(name) == <<"\"">> \o name \o <<"\"">>

-----------------------------------------------------------------------------
(* Values, rows, relations and the aggregates the backend computes *)

NULL == <<>>
Val(v) == <<v>>
IsNull(x) == x = NULL

RECURSIVE SumSeq(_)
SumSeq(s) == IF s = <<>> THEN 0 ELSE Head(s) + SumSeq(Tail(s))

\* the rows of bag B that lie in the set S, with their multiplicities
Restrict(B, S) == [r \in S \cap DOMAIN B |-> B[r]]

\* SELECT COUNT(*) FROM B
CountStar(B) == BagCardinality(B)

\* SELECT COUNT(*) FROM (SELECT cols, COUNT(*) AS cnt FROM B GROUP BY cols HAVING cnt > 1)
\* GROUP BY puts NULLs of a column in one group.
DuplicateGroups(B, idx) ==
    LET \* the projection of row r on the column positions idx (a sequence)
        Project(r, idx0) == [k \in 1..Len(idx0) |-> r[idx0[k]]]
    IN  LET keys == {Project(r, idx) : r \in DOMAIN B}
            Size(g) == CountStar(Restrict(B, {r \in DOMAIN B : Project(r, idx) = g}))
        IN Cardinality({g \in keys : Size(g) > 1})

\* SELECT COUNT(*) FROM B WHERE col IS NULL
NullCount(B, i) == CountStar(Restrict(B, {r \in DOMAIN B : IsNull(r[i])}))

\* SELECT COUNT(DISTINCT col) FROM B : NULLs are not counted
DistinctCount(B, i) == Cardinality({r[i] : r \in DOMAIN B} \ {NULL})

-----------------------------------------------------------------------------
(* Statements sent to the backend *)

Stmt(kind, column) == [kind |-> kind, column |-> column]

\* SourceRegistry.get_schema: DESCRIBE of the relation
GetSchema == schema

-----------------------------------------------------------------------------
(* detect_quality_issues *)

id_suffixes == {<<"_","i","d">>, <<"i","d">>}

numeric_fragments ==
    {<<"i","n","t">>, <<"f","l","o","a","t">>, <<"d","o","u","b","l","e">>,
     <<"d","e","c","i","m","a","l">>, <<"n","u","m","e","r","i","c">>, <<"r","e","a","l">>}

positive_keywords ==
    {<<"p","r","i","c","e">>, <<"a","m","o","u","n","t">>, <<"t","o","t","a","l">>,
     <<"q","u","a","n","t","i","t","y">>, <<"q","t","y">>, <<"c","o","u","n","t">>,
     <<"c","o","s","t">>, <<"r","e","v","e","n","u","e">>, <<"f","e","e">>}

\* c["column"].lower().endswith(id_suffixes)
IsIdLike(col) ==
    LET \* str.endswith(suffix)
        EndsWith(s, suffix) ==
            /\ Len(suffix) <= Len(s)
            /\ SubSeq(s, Len(s) - Len(suffix) + 1, Len(s)) = suffix
    IN  \E suf \in id_suffixes : EndsWith(Lower(col), suf)

\* mutant: the declared type is not lower-cased before the substring test
IsNumericType_CaseSensitive(type) == \E t \in numeric_fragments : Contains(type, t)

\* any(t in col_type for t in [...]) with col_type = type.lower()
IsNumericType(type) == \E t \in numeric_fragments : Contains(Lower(type), t)

\* the positions of all columns, in schema order
AllCols(sch) == [i \in 1..Len(sch) |-> i]

\* non_id_cols
NonIdCols(sch) ==
    LET \* the positions from i on of the columns that are not id-like, in schema order
        RECURSIVE NonIdColsFrom(_, _)
        NonIdColsFrom(sch0, i) ==
            IF i > Len(sch0) THEN <<>>
            ELSE (IF IsIdLike(sch0[i].column) THEN <<>> ELSE <<i>>) \o NonIdColsFrom(sch0, i + 1)
    IN  NonIdColsFrom(sch, 1)

\* round(n / d, 4), in ten-thousandths
Round4(n, d) ==
    LET q == (n * 10000) \div d
        r == (n * 10000) % d
    IN IF 2 * r > d \/ (2 * r = d /\ q % 2 = 1) THEN q + 1 ELSE q

\* mutant: a count of exactly 1% of the rows is "high"
DupSeverity_Inclusive(count, row_count) == IF count * 100 >= row_count THEN "high" ELSE "medium"

\* "high" if count > row_count * 0.01 else "medium"
DupSeverity(count, row_count) == IF count * 100 > row_count THEN "high" ELSE "medium"

\* mutant: the 5% threshold is inclusive
NullRateAbove5_Inclusive(null_count, row_count) == null_count * 100 >= 5 * row_count

\* null_rate > 0.05 with null_rate = null_count / row_count
NullRateAbove5(null_count, row_count) == null_count * 100 > 5 * row_count

\* the exact-duplicate check: the issue it appends, if any
DuplicatesIssues(sch, B, row_count) ==
    LET dup_count == DuplicateGroups(B, AllCols(sch))
    IN IF dup_count > 0
       THEN <<[type |-> "duplicates",
               severity |-> DupSeverity(dup_count, row_count),
               duplicate_groups |-> dup_count]>>
       ELSE <<>>

\* mutant: the comparison of the reduced column list with the schema is inverted
SemanticCheckRuns_Inverted(sch) == NonIdCols(sch) # <<>> /\ Len(NonIdCols(sch)) > Len(sch)

\* the semantic-duplicate check is run at all
SemanticCheckRuns(sch) == NonIdCols(sch) # <<>> /\ Len(NonIdCols(sch)) < Len(sch)

\* mutant: the count is not compared with the exact-duplicate count
SemanticIssues_NoComparison(sch, B, row_count) ==
    LET non_id_cols == NonIdCols(sch)
        sem_dup_count == DuplicateGroups(B, non_id_cols)
    IN IF SemanticCheckRuns(sch) /\ sem_dup_count > 0
       THEN <<[type |-> "semantic_duplicates",
               severity |-> DupSeverity(sem_dup_count, row_count),
               duplicate_groups |-> sem_dup_count,
               columns_checked |-> [k \in 1..Len(non_id_cols) |-> sch[non_id_cols[k]].column]]>>
       ELSE <<>>

\* the semantic-duplicate check: the issue it appends, if any
SemanticIssues(sch, B, row_count) ==
    LET dup_count == DuplicateGroups(B, AllCols(sch))
        non_id_cols == NonIdCols(sch)
        sem_dup_count == DuplicateGroups(B, non_id_cols)
    IN IF SemanticCheckRuns(sch) /\ sem_dup_count > 0 /\ sem_dup_count # dup_count
       THEN <<[type |-> "semantic_duplicates",
               severity |-> DupSeverity(sem_dup_count, row_count),
               duplicate_groups |-> sem_dup_count,
               columns_checked |-> [k \in 1..Len(non_id_cols) |-> sch[non_id_cols[k]].column]]>>
       ELSE <<>>

\* mutant: the row_count > 1 condition is missing
IsConstant_AnyRowCount(distinct, row_count) == distinct = 1

\* distinct == 1 and row_count > 1
IsConstant(distinct, row_count) == distinct = 1 /\ row_count > 1

\* the negative-count query is issued for column i
ChecksNegatives(sch, i) ==
    LET \* any(kw in col.lower() for kw in positive_keywords)
        IsLikelyPositive(col) == \E kw \in positive_keywords : Contains(Lower(col), kw)
    IN  IsNumericType(sch[i].type) /\ IsLikelyPositive(sch[i].column)

\* the body of "for col_info in schema", from column i on
RECURSIVE ColumnIssues(_, _, _, _)
ColumnIssues(sch, B, row_count, i) ==
    LET HighNullRateIssues(sch0, B0, row_count1, i0) ==
            LET \* null_rate > 0.3
                NullRateAbove30(null_count, row_count0) == null_count * 10 > 3 * row_count0
            IN  LET null_count == NullCount(B0, i0)
                IN IF NullRateAbove5(null_count, row_count1)
                   THEN <<[type |-> "high_null_rate",
                           severity |-> IF NullRateAbove30(null_count, row_count1) THEN "high" ELSE "medium",
                           column |-> sch0[i0].column,
                           null_rate |-> Round4(null_count, row_count1),
                           null_count |-> null_count]>>
                   ELSE <<>>
        ConstantColumnIssues(sch0, B0, row_count0, i0) ==
            IF IsConstant(DistinctCount(B0, i0), row_count0)
            THEN <<[type |-> "constant_column", severity |-> "low", column |-> sch0[i0].column]>>
            ELSE <<>>
        UnexpectedNegativesIssues(sch0, B1, i1) ==
            LET \* SELECT COUNT(*) FROM B1 WHERE col < 0 : a NULL is not < 0
                NegativeCount(B0, i0) ==
                    CountStar(Restrict(B0, {r \in DOMAIN B0 : ~IsNull(r[i0]) /\ r[i0][1] < 0}))
            IN  LET neg_count == NegativeCount(B1, i1)
                IN IF ChecksNegatives(sch0, i1) /\ neg_count > 0
                   THEN <<[type |-> "unexpected_negatives", severity |-> "high",
                           column |-> sch0[i1].column, negative_count |-> neg_count]>>
                   ELSE <<>>
    IN  IF i > Len(sch) THEN <<>>
        ELSE HighNullRateIssues(sch, B, row_count, i)
             \o ConstantColumnIssues(sch, B, row_count, i)
             \o UnexpectedNegativesIssues(sch, B, i)
             \o ColumnIssues(sch, B, row_count, i + 1)

RECURSIVE ColumnStmts(_, _)
ColumnStmts(sch, i) ==
    IF i > Len(sch) THEN <<>>
    ELSE <<Stmt("null_count", sch[i].column), Stmt("distinct_count", sch[i].column)>>
         \o (IF ChecksNegatives(sch, i) THEN <<Stmt("negative_count", sch[i].column)>> ELSE <<>>)
         \o ColumnStmts(sch, i + 1)

\* mutant: the per-column issues are put before the duplicate issues
QualityReport_ColumnsFirst(table, sch, B) ==
    LET row_count == CountStar(B)
        issues == ColumnIssues(sch, B, row_count, 1)
                  \o DuplicatesIssues(sch, B, row_count)
                  \o SemanticIssues(sch, B, row_count)
    IN IF row_count = 0
       THEN [table |-> table, row_count |-> 0, issues |-> <<>>, issue_count |-> 0]
       ELSE [table |-> table, row_count |-> row_count, issues |-> issues,
             issue_count |-> Len(issues)]

\* the report detect_quality_issues returns
QualityReport(table, sch, B) ==
    LET row_count == CountStar(B)
        issues == DuplicatesIssues(sch, B, row_count)
                  \o SemanticIssues(sch, B, row_count)
                  \o ColumnIssues(sch, B, row_count, 1)
    IN IF row_count = 0
       THEN [table |-> table, row_count |-> 0, issues |-> <<>>, issue_count |-> 0]
       ELSE [table |-> table, row_count |-> row_count, issues |-> issues,
             issue_count |-> Len(issues)]

\* mutant: no early return on an empty table
QualityStmts_NoEarlyReturn(sch, B) ==
    <<Stmt("describe", None), Stmt("row_count", None), Stmt("duplicate_groups", None)>>
    \o (IF SemanticCheckRuns(sch) THEN <<Stmt("semantic_groups", None)>> ELSE <<>>)
    \o ColumnStmts(sch, 1)

\* the statements detect_quality_issues sends
QualityStmts(sch, B) ==
    <<Stmt("describe", None), Stmt("row_count", None)>>
    \o (IF CountStar(B) = 0 THEN <<>>
        ELSE <<Stmt("duplicate_groups", None)>>
             \o (IF SemanticCheckRuns(sch) THEN <<Stmt("semantic_groups", None)>> ELSE <<>>)
             \o ColumnStmts(sch, 1))

DetectQualityIssues ==
    /\ call' = [op |-> "detect_quality_issues", table |-> relname, source |-> None]
    /\ result' = QualityReport(relname, GetSchema, rows)
    /\ stmts' = QualityStmts(GetSchema, rows)
    /\ zdivs' = 0
    /\ UNCHANGED <<relname, schema, rows, catalog, registry, files, history, max_history>>

-----------------------------------------------------------------------------
(* SourceRegistry.query: the LIMIT safety cap *)

RowLevelLimit == 100      \* limit=100 of the row-level outlier query
DailyLimit == 10000       \* limit=10000 of the daily aggregation query
MinDays == 3              \* fewer day buckets than this: no detection
HoursPerDay == 24         \* timestamps are counted in hours

Whitespace == {" ", "\t", "\n", "\r"}

RECURSIVE LStrip(_, _)
LStrip(s, chars) == IF s # <<>> /\ Head(s) \in chars THEN LStrip(Tail(s), chars) ELSE s

RECURSIVE RStrip(_, _)
RStrip(s, chars) ==
    IF s # <<>> /\ s[Len(s)] \in chars THEN RStrip(SubSeq(s, 1, Len(s) - 1), chars) ELSE s

\* sql.strip().rstrip(";")
Trimmed(sql) == RStrip(RStrip(LStrip(sql, Whitespace), Whitespace), {";"})

\* "limit" not in trimmed.lower().split("--")[0].split("/*")[0]
LimitAppended(sql) ==
    LET \* s.split(sep)[0]
        SplitFirst(s, sep) ==
            LET \* the index of the first occurrence of sub in s, 0 when there is none
                Find(s0, sub) ==
                    IF ~Contains(s0, sub) THEN 0
                    ELSE CHOOSE i \in 1..(Len(s0) - Len(sub) + 1) :
                            OccursAt(s0, sub, i) /\ \A k \in 1..(i - 1) : ~OccursAt(s0, sub, k)
            IN  IF ~Contains(s, sep) THEN s ELSE SubSeq(s, 1, Find(s, sep) - 1)
    IN  ~Contains(SplitFirst(SplitFirst(Lower(Trimmed(sql)), <<"-","-">>), <<"/","*">>),
                  <<"l","i","m","i","t">>)

\* s[:n]
Take(s, n) == SubSeq(s, 1, IF Len(s) < n THEN Len(s) ELSE n)

QueryStmt(kind, column, limit) == [kind |-> kind, column |-> column, limit |-> limit]

-----------------------------------------------------------------------------
(* detect_anomalies: the SQL text it builds *)

\* f'"{source}"."{table}"' if source else f'"{table}"'
Qualified(table, source) ==
    IF source # None THEN Quoted(source) \o <<".">> \o Quoted(table) ELSE Quoted(table)

\* the text of an interpolated float: digits, sign, '.', 'e' (or inf, nan);
\* it never contributes to the substring tests of query()
NumberText == <<"#">>

sql_where ==
    <<" ","W","H","E","R","E"," ">>

\* agg_query
AggQueryText(qualified, safe_col, safe_time) ==
    LET sql_select_cast ==
            <<"S","E","L","E","C","T"," ","C","A","S","T","(">>
        sql_as_date_sum ==
            <<" ","A","S"," ","D","A","T","E",")"," ","A","S"," ","d","a","y",","," ","S","U","M","(">>
        sql_as_daily_from ==
            <<")"," ","A","S"," ","d","a","i","l","y","_","v","a","l","u","e",","," ","C","O","U","N",
              "T","(","*",")"," ","A","S"," ","d","a","i","l","y","_","c","o","u","n","t"," ","F","R",
              "O","M"," ">>
        sql_not_null_group ==
            <<" ","I","S"," ","N","O","T"," ","N","U","L","L"," ","G","R","O","U","P"," ","B","Y"," ",
              "d","a","y"," ","O","R","D","E","R"," ","B","Y"," ","d","a","y">>
    IN  sql_select_cast \o safe_time \o sql_as_date_sum \o safe_col \o sql_as_daily_from
        \o qualified \o sql_where \o safe_col \o sql_not_null_group

\* the outlier query of row-level mode
RowQueryText(qualified, safe_col) ==
    LET sql_select_star ==
            <<"S","E","L","E","C","T"," ","*",","," ","(">>
        sql_as_z_from ==
            <<" ","A","S"," ","z","_","s","c","o","r","e"," ","F","R","O","M"," ">>
        sql_not_null_and_abs ==
            <<" ","I","S"," ","N","O","T"," ","N","U","L","L"," ","A","N","D"," ","A","B","S","(","(">>
        sql_at_least ==
            <<")"," ",">","="," ">>
        sql_order_by_abs ==
            <<" ","O","R","D","E","R"," ","B","Y"," ","A","B","S","(","(">>
        sql_desc ==
            <<")"," ","D","E","S","C">>
        \* ("col" - mean) / stddev
        ZScoreText(safe_col0) ==
            LET sql_minus ==
                    <<" ","-"," ">>
                sql_over ==
                    <<")"," ","/"," ">>
            IN  safe_col0 \o sql_minus \o NumberText \o sql_over \o NumberText
    IN  sql_select_star \o ZScoreText(safe_col) \o sql_as_z_from \o qualified
        \o sql_where \o safe_col \o sql_not_null_and_abs \o ZScoreText(safe_col)
        \o sql_at_least \o NumberText \o sql_order_by_abs \o ZScoreText(safe_col) \o sql_desc

-----------------------------------------------------------------------------
(* The identifiers of the modelled tables and the queries built from them *)

n_users == <<"u","s","e","r","s">>
n_orders == <<"o","r","d","e","r","s">>
n_pq == <<"p","q">>
n_created_at == <<"c","r","e","a","t","e","d","_","a","t">>
n_amount == <<"a","m","o","u","n","t">>
n_value == <<"v","a","l","u","e">>
n_credit_limit == <<"c","r","e","d","i","t","_","l","i","m","i","t">>
n_db == <<"d","b">>
n_id == <<"i","d">>

\* LimitAppended, tabulated once over these texts
LimitAppendedTo ==
    LET \* the texts detect_anomalies passes to query() for these identifiers
        QueryTexts ==
            LET TableNames == {n_users, n_orders, n_pq}
                ValueColumns == {n_amount, n_value, n_credit_limit}
                TimeColumns == {n_created_at}
            IN  {AggQueryText(Qualified(t, None), Quoted(c), Quoted(tc)) :
                    t \in TableNames, c \in ValueColumns, tc \in TimeColumns}
                \cup {RowQueryText(Qualified(t, None), Quoted(c)) : t \in TableNames, c \in ValueColumns}
    IN  [sql \in QueryTexts |-> LimitAppended(sql)]

\* SourceRegistry.query(sql, limit), where answer is the ordered answer of the
\* backend to sql as written: with " LIMIT n" appended the backend returns
\* its first n rows.
Query(sql, answer, limit) == IF LimitAppendedTo[sql] THEN Take(answer, limit) ELSE answer

\* the LIMIT that query() appended to sql, 0 when it appended none
AppendedLimit(sql, limit) == IF LimitAppendedTo[sql] THEN limit ELSE 0

-----------------------------------------------------------------------------
(* detect_anomalies: statistics *)

\* the sum of the values of a function with a finite domain
RECURSIVE SumFn(_)
SumFn(f) ==
    IF DOMAIN f = {} THEN 0
    ELSE LET x == CHOOSE y \in DOMAIN f : TRUE
         IN f[x] + SumFn([y \in DOMAIN f \ {x} |-> f[y]])

\* the position of the column called name
ColumnIndex(sch, name) == CHOOSE i \in 1..Len(sch) : sch[i].column = name

\* the rows WHERE col IS NOT NULL
NonNullRows(B, c) == Restrict(B, {r \in DOMAIN B : ~IsNull(r[c])})

\* A mean and a standard deviation over n values of sum s are kept as
\* [count, sum, q, divisor] with q = SUM (n*v - s)^2 :
\*   mean = sum / count,  stddev^2 = q / (count^2 * divisor).

\* mutant: the sample divisor
PopulationDivisor_Sample(n) == n - 1

\* sum(...) / len(values): the population variance divides by N
PopulationDivisor(n) == n

\* mutant: the guard is missing
StddevPositive_Unguarded(st) == TRUE

\* stddev > 0, where a NULL STDDEV (fewer than 2 values) was replaced by 0
StddevPositive(st) == st.divisor > 0 /\ st.q > 0

Sign(x) == IF x > 0 THEN 1 ELSE IF x < 0 THEN -1 ELSE 0

\* mutant: the threshold is not applied
AbsZAtLeast_Always(dev, st, zt) == TRUE

\* abs(z) >= z_threshold for the value whose deviation n*v - s is dev;
\* zt = <<numerator, denominator>> of the threshold
AbsZAtLeast(dev, st, zt) ==
    \/ zt[1] <= 0
    \/ dev * dev * st.divisor * zt[2] * zt[2] >= zt[1] * zt[1] * st.q

\* z = (v - mean) / stddev, kept as its sign and its square (a fraction)
ZScore(dev, st) == [sign |-> Sign(dev), square |-> <<dev * dev * st.divisor, st.q>>]

-----------------------------------------------------------------------------
(* detect_anomalies: row-level mode *)

\* SELECT AVG(col), STDDEV(col), COUNT(*) FROM t WHERE col IS NOT NULL
RowStats(B, c) ==
    LET \* STDDEV is DuckDB's stddev_samp: the sample variance divides by N - 1
        SampleDivisor(n) == n - 1
    IN  LET nn == NonNullRows(B, c)
            n == CountStar(nn)
            s == SumFn([r \in DOMAIN nn |-> r[c][1] * nn[r]])
        IN [count |-> n, sum |-> s,
            q |-> SumFn([r \in DOMAIN nn |-> (n * r[c][1] - s) * (n * r[c][1] - s) * nn[r]]),
            divisor |-> SampleDivisor(n)]

\* [x] * n
Replicate(x, n) == [k \in 1..n |-> x]

RowLevelReport(table, column, source, zt) ==
    LET \* the answer to the outlier query without a LIMIT. A division by a zero
        \* stddev yields NULL in the backend, and NULL >= t selects no row.
        RowLevelOutliers(B, c, st, zt0) ==
            LET \* ORDER BY ABS(z) DESC over the distinct rows S; each row is returned as
                \* often as the table holds it. The order among rows of equal |z| is the
                \* backend's; one such order is taken.
                RECURSIVE OrderByAbsZDesc(_, _, _, _)
                OrderByAbsZDesc(S, B0, c0, st0) ==
                    IF S = {} THEN <<>>
                    ELSE LET Dev(r) == st0.count * r[c0][1] - st0.sum
                             top == CHOOSE r \in S : \A o \in S : Dev(r) * Dev(r) >= Dev(o) * Dev(o)
                         IN Replicate([row |-> top, z_score |-> ZScore(Dev(top), st0)], B0[top])
                            \o OrderByAbsZDesc(S \ {top}, B0, c0, st0)
            IN  LET nn == NonNullRows(B, c)
                    qualifying == {r \in DOMAIN nn :
                                     /\ st.divisor > 0 /\ st.q > 0
                                     /\ AbsZAtLeast(st.count * r[c][1] - st.sum, st, zt0)}
                IN OrderByAbsZDesc(qualifying, B, c, st)
    IN  LET c == ColumnIndex(schema, column)
            st == RowStats(rows, c)
            sql == RowQueryText(Qualified(table, source), Quoted(column))
            anomalies == IF StddevPositive(st)
                         THEN Query(sql, RowLevelOutliers(rows, c, st, zt), RowLevelLimit)
                         ELSE <<>>
        IN [table |-> table, column |-> column, method |-> "z_score_row_level",
            z_threshold |-> zt,
            stats |-> [mean |-> IF st.count = 0 THEN <<0, 1>> ELSE <<st.sum, st.count>>,
                       stddev_positive |-> st.divisor > 0 /\ st.q > 0,
                       count |-> st.count],
            anomalies |-> anomalies,
            anomaly_count |-> Len(anomalies)]

RowLevelStmts(table, column, source) ==
    LET c == ColumnIndex(schema, column)
        sql == RowQueryText(Qualified(table, source), Quoted(column))
    IN <<Stmt("stats", column)>>
       \o (IF StddevPositive(RowStats(rows, c))
           THEN <<QueryStmt("outliers", column, AppendedLimit(sql, RowLevelLimit))>>
           ELSE <<>>)

-----------------------------------------------------------------------------
(* detect_anomalies: time-aggregated mode *)

\* mean and stddev as Python computes them over the daily values
DailyStats(buckets) ==
    LET n == Len(buckets)
        s == SumSeq([k \in 1..n |-> buckets[k].daily_value])
    IN [count |-> n, sum |-> s,
        q |-> SumSeq([k \in 1..n |-> (n * buckets[k].daily_value - s)
                                     * (n * buckets[k].daily_value - s)]),
        divisor |-> PopulationDivisor(n)]

\* mutant: two day buckets are taken to be enough
TooFewDays_Two(n) == n < 2

\* len(rows) < 3
TooFewDays(n) == n < MinDays

\* the rows the daily aggregation query returns to the caller
DailyRows(table, column, time_column, source) ==
    LET \* SELECT CAST(t AS DATE) AS day, SUM(col) AS daily_value, COUNT(*) AS daily_count
        \* FROM tbl WHERE col IS NOT NULL GROUP BY day ORDER BY day
        DailyBuckets(B, c, t) ==
            LET \* CAST(ts AS DATE): the day a timestamp (in hours) falls on
                CastDate(ts) == ts[1] \div HoursPerDay
                \* the elements of a set of integers in ascending order
                RECURSIVE Ascending(_)
                Ascending(S) ==
                    IF S = {} THEN <<>>
                    ELSE LET m == CHOOSE x \in S : \A y \in S : x <= y IN <<m>> \o Ascending(S \ {m})
            IN  LET nn == NonNullRows(B, c)
                    days == Ascending({CastDate(r[t]) : r \in DOMAIN nn})
                    OfDay(d) == Restrict(nn, {r \in DOMAIN nn : CastDate(r[t]) = d})
                IN [k \in 1..Len(days) |->
                      [day |-> days[k],
                       daily_value |-> SumFn([r \in DOMAIN OfDay(days[k]) |-> r[c][1] * nn[r]]),
                       daily_count |-> CountStar(OfDay(days[k]))]]
    IN  Query(AggQueryText(Qualified(table, source), Quoted(column), Quoted(time_column)),
              DailyBuckets(rows, ColumnIndex(schema, column), ColumnIndex(schema, time_column)),
              DailyLimit)

DailyReport(table, column, time_column, source, zt) ==
    LET \* the loop "for row in rows", from bucket k on
        RECURSIVE FlaggedDays(_, _, _, _)
        FlaggedDays(buckets, st, zt0, k) ==
            IF k > Len(buckets) THEN <<>>
            ELSE LET dev == st.count * buckets[k].daily_value - st.sum
                 IN (IF AbsZAtLeast(dev, st, zt0)
                     THEN <<[day |-> buckets[k].day,
                             value |-> buckets[k].daily_value,
                             count |-> buckets[k].daily_count,
                             z_score |-> ZScore(dev, st),
                             direction |-> IF Sign(dev) > 0 THEN "above" ELSE "below"]>>
                     ELSE <<>>)
                    \o FlaggedDays(buckets, st, zt0, k + 1)
        \* the loop divides by stddev: Python raises ZeroDivisionError on a zero divisor
        LoopRaises(buckets, st) == StddevPositive(st) /\ st.q = 0 /\ Len(buckets) > 0
    IN  LET buckets == DailyRows(table, column, time_column, source)
            st == DailyStats(buckets)
            anomalies == IF StddevPositive(st) THEN FlaggedDays(buckets, st, zt, 1) ELSE <<>>
        IN IF TooFewDays(Len(buckets))
           THEN [table |-> table, column |-> column, anomalies |-> <<>>,
                 message |-> "Not enough data points for anomaly detection"]
           ELSE IF LoopRaises(buckets, st)
           THEN [raised |-> "ZeroDivisionError"]
           ELSE [table |-> table, column |-> column, time_column |-> time_column,
                 method |-> "z_score_daily_aggregation",
                 z_threshold |-> zt,
                 stats |-> [mean |-> <<st.sum, st.count>>,
                            stddev_positive |-> st.q > 0,
                            days |-> Len(buckets)],
                 anomalies |-> anomalies,
                 anomaly_count |-> Len(anomalies)]

DailyStmts(table, column, time_column, source) ==
    <<QueryStmt("daily_aggregation", column,
                AppendedLimit(AggQueryText(Qualified(table, source), Quoted(column),
                                           Quoted(time_column)), DailyLimit))>>

\* the divisions by stddev the loop performs
DailyDivisions(table, column, time_column, source) ==
    LET buckets == DailyRows(table, column, time_column, source)
        st == DailyStats(buckets)
    IN IF TooFewDays(Len(buckets)) \/ ~StddevPositive(st) THEN 0
       ELSE IF st.q = 0 THEN 1
       ELSE Len(buckets)

-----------------------------------------------------------------------------
(* detect_anomalies *)

DetectAnomalies(column, time_column, zt) ==
    /\ call' = [op |-> "detect_anomalies", table |-> relname, column |-> column,
                time_column |-> time_column, source |-> None, z_threshold |-> zt]
    /\ result' = IF time_column # None
                 THEN DailyReport(relname, column, time_column, None, zt)
                 ELSE RowLevelReport(relname, column, None, zt)
    /\ stmts' = IF time_column # None
                THEN DailyStmts(relname, column, time_column, None)
                ELSE RowLevelStmts(relname, column, None)
    /\ zdivs' = IF time_column # None
                THEN DailyDivisions(relname, column, time_column, None)
                ELSE 0
    /\ UNCHANGED <<relname, schema, rows, catalog, registry, files, history, max_history>>

-----------------------------------------------------------------------------
(* validation.validate_identifier *)

\* \w
WordChars ==
    LET Letters ==
            {"a","b","c","d","e","f","g","h","i","j","k","l","m",
             "n","o","p","q","r","s","t","u","v","w","x","y","z"} \cup DOMAIN LowerCase
        Digits == {"0","1","2","3","4","5","6","7","8","9"}
    IN  Letters \cup Digits \cup {"_"}

\* _DANGEROUS_IDENTIFIER_RE = --|/\*|\*/
HasDangerousSequence(s) ==
    Contains(s, <<"-","-">>) \/ Contains(s, <<"/","*">>) \/ Contains(s, <<"*","/">>)

\* value.strip()
Strip(value) == RStrip(LStrip(value, Whitespace), Whitespace)

\* validate_identifier(value, label): the stripped value, or the ValueError
validate_identifier(value) ==
    LET \* _SAFE_IDENTIFIER_RE = ^[\w][\w\s\-.]*$
        MatchesSafeIdentifier(s) ==
            /\ s # <<>>
            /\ s[1] \in WordChars
            /\ \A i \in 2..Len(s) : s[i] \in WordChars \cup Whitespace \cup {"-", "."}
    IN  LET stripped == Strip(value)
        IN IF stripped = <<>>
           THEN [raised |-> "ValueError", message |-> "must not be empty"]
           ELSE IF ~MatchesSafeIdentifier(stripped)
           THEN [raised |-> "ValueError", message |-> "disallowed characters"]
           ELSE IF HasDangerousSequence(stripped)
           THEN [raised |-> "ValueError", message |-> "disallowed character sequences"]
           ELSE [value |-> stripped]

Raises(outcome) == "raised" \in DOMAIN outcome

-----------------------------------------------------------------------------
(* SourceRegistry.get_schema *)

\* get_schema(table, source_name): the schema, or the exception raised, and
\* the statements sent
get_schema(table, source_name, rel, sch, cat, reg) ==
    LET \* name in self._sources and its source_type is SQLITE
        IsSqliteSource(reg0, name) ==
            \E k \in 1..Len(reg0) : reg0[k].name = name /\ reg0[k].source_type = "sqlite"
        \* self._conn.execute(f"DESCRIBE {qualified}").fetchall()
        Describe(qualified, rel0, sch0, cat0) ==
            LET DescribeStmt(qualified0) == [kind |-> "describe", relation |-> qualified0]
            IN  IF qualified = Quoted(rel0) /\ rel0 # None
                THEN [schema |-> sch0, stmts |-> <<DescribeStmt(qualified)>>]
                ELSE IF qualified \in DOMAIN cat0 /\ cat0[qualified].describable
                THEN [schema |-> cat0[qualified].schema, stmts |-> <<DescribeStmt(qualified)>>]
                ELSE [raised |-> "CatalogException", stmts |-> <<DescribeStmt(qualified)>>]
    IN  LET t == validate_identifier(table)
            s == IF source_name # None THEN validate_identifier(source_name)
                 ELSE [value |-> None]
        IN IF Raises(t) THEN t @@ [stmts |-> <<>>]
           ELSE IF Raises(s) THEN s @@ [stmts |-> <<>>]
           ELSE Describe(IF s.value # None /\ IsSqliteSource(reg, s.value)
                         THEN Qualified(t.value, s.value)
                         ELSE Quoted(t.value),
                         rel, sch, cat)

-----------------------------------------------------------------------------
(* compare_schemas *)

\* the characters of the modelled identifiers and type names, by code point
Ascii ==
    <<"\t", "\n", "\r", " ", "\"", "#", "'", "(", ")", "*", ",", "-", ".", "/",
      "0","1","2","3","4","5","6","7","8","9", ";",
      "A","B","C","D","E","F","G","H","I","J","K","L","M",
      "N","O","P","Q","R","S","T","U","V","W","X","Y","Z", "_",
      "a","b","c","d","e","f","g","h","i","j","k","l","m",
      "n","o","p","q","r","s","t","u","v","w","x","y","z">>

\* mutant: a changed type is not counted
DiffCount_NoTypeChanges(added, removed, type_changes) == Len(added) + Len(removed)

\* len(added) + len(removed) + len(type_changes)
DiffCount(added, removed, type_changes) == Len(added) + Len(removed) + Len(type_changes)

\* what compare_schemas returns or raises
CompareSchemasReport(table_a, table_b, source_a, source_b, rel, sch, cat, reg) ==
    LET \* the report compare_schemas builds from the two schemas
        SchemaDiff(table_a0, table_b0, source_a0, source_b0, sch_a, sch_b) ==
            LET \* sorted(S) for a set of str
                RECURSIVE SortedTexts(_)
                SortedTexts(S) ==
                    LET \* a < b for Python str
                        RECURSIVE TextLess(_, _)
                        TextLess(a, b) ==
                            LET CodePoint(c) == CHOOSE i \in 1..Len(Ascii) : Ascii[i] = c
                            IN  IF b = <<>> THEN FALSE
                                ELSE IF a = <<>> THEN TRUE
                                ELSE IF Head(a) = Head(b) THEN TextLess(Tail(a), Tail(b))
                                ELSE CodePoint(Head(a)) < CodePoint(Head(b))
                    IN  IF S = {} THEN <<>>
                        ELSE LET least == CHOOSE x \in S : \A y \in S \ {x} : TextLess(x, y)
                             IN <<least>> \o SortedTexts(S \ {least})
                \* {c["column"]: c["type"] for c in schema}: a later entry replaces an earlier one
                ColumnTypes(sch0) ==
                    [c \in {sch0[i].column : i \in 1..Len(sch0)} |->
                        sch0[CHOOSE i \in 1..Len(sch0) :
                                /\ sch0[i].column = c
                                /\ \A j \in (i + 1)..Len(sch0) : sch0[j].column # c].type]
                \* the elements of the sequence s that lie in S, in order
                RECURSIVE Filter(_, _)
                Filter(s, S) ==
                    IF s = <<>> THEN <<>>
                    ELSE (IF Head(s) \in S THEN <<Head(s)>> ELSE <<>>) \o Filter(Tail(s), S)
                \* f"{source}.{table}" if source else table
                DisplayName(table, source) == IF source # None THEN source \o <<".">> \o table ELSE table
            IN  LET schema_a == ColumnTypes(sch_a)
                    schema_b == ColumnTypes(sch_b)
                    cols_a == DOMAIN schema_a
                    cols_b == DOMAIN schema_b
                    in_b_only == SortedTexts(cols_b \ cols_a)
                    in_a_only == SortedTexts(cols_a \ cols_b)
                    changed == Filter(SortedTexts(cols_a \cap cols_b),
                                      {c \in cols_a \cap cols_b : schema_a[c] # schema_b[c]})
                    added == [k \in 1..Len(in_b_only) |->
                                [column |-> in_b_only[k], type |-> schema_b[in_b_only[k]]]]
                    removed == [k \in 1..Len(in_a_only) |->
                                [column |-> in_a_only[k], type |-> schema_a[in_a_only[k]]]]
                    type_changes == [k \in 1..Len(changed) |->
                                [column |-> changed[k], type_a |-> schema_a[changed[k]],
                                 type_b |-> schema_b[changed[k]]]]
                IN [table_a |-> DisplayName(table_a0, source_a0),
                    table_b |-> DisplayName(table_b0, source_b0),
                    identical |-> Len(added) = 0 /\ Len(removed) = 0 /\ Len(type_changes) = 0,
                    columns_added_in_b |-> added,
                    columns_removed_in_b |-> removed,
                    type_changes |-> type_changes,
                    diff_count |-> DiffCount(added, removed, type_changes)]
    IN  LET a == get_schema(table_a, source_a, rel, sch, cat, reg)
            b == get_schema(table_b, source_b, rel, sch, cat, reg)
        IN IF Raises(a) THEN [raised |-> a.raised]
           ELSE IF Raises(b) THEN [raised |-> b.raised]
           ELSE SchemaDiff(table_a, table_b, source_a, source_b, a.schema, b.schema)

\* the statements compare_schemas sends
CompareSchemasStmts(table_a, table_b, source_a, source_b, rel, sch, cat, reg) ==
    LET a == get_schema(table_a, source_a, rel, sch, cat, reg)
        b == get_schema(table_b, source_b, rel, sch, cat, reg)
    IN IF Raises(a) THEN a.stmts ELSE a.stmts \o b.stmts

CompareSchemas(table_a, table_b, source_a, source_b) ==
    /\ call' = [op |-> "compare_schemas", table_a |-> table_a, table_b |-> table_b,
                source_a |-> source_a, source_b |-> source_b]
    /\ result' = CompareSchemasReport(table_a, table_b, source_a, source_b,
                                      relname, schema, catalog, registry)
    /\ stmts' = CompareSchemasStmts(table_a, table_b, source_a, source_b,
                                    relname, schema, catalog, registry)
    /\ zdivs' = 0
    /\ UNCHANGED <<relname, schema, rows, catalog, registry, files, history, max_history>>

-----------------------------------------------------------------------------
(* profile_table *)

\* str(n) for an int n
RECURSIVE NatText(_)
NatText(n) ==
    LET digit == <<"0","1","2","3","4","5","6","7","8","9">>[(n % 10) + 1]
    IN IF n < 10 THEN <<digit>> ELSE NatText(n \div 10) \o <<digit>>

\* the fragments profile_table looks for in the lower-cased type
profile_numeric_fragments ==
    numeric_fragments \cup {<<"b","i","g","i","n","t">>, <<"s","m","a","l","l","i","n","t">>}

\* is_numeric
IsNumericForProfile(type) == \E t \in profile_numeric_fragments : Contains(Lower(type), t)

\* mutant: the rate is truncated, not rounded
RateOf_Truncated(count, row_count) ==
    IF row_count > 0 THEN (count * 10000) \div row_count ELSE 0

\* round(count / row_count, 4) if row_count > 0 else 0
RateOf(count, row_count) == IF row_count > 0 THEN Round4(count, row_count) ELSE 0

TopValuesLimit == 10         \* LIMIT 10 of the top-values query
LowCardinality == 20         \* top values are listed up to this many distinct values

\* the relation that FROM {qualified} names is the analysed one
IsAnalysed(qualified, rel) == rel # None /\ qualified = Quoted(rel)

\* what profile_table returns or raises
ProfileReport(table, source, rel, sch, B, cat, reg) ==
    LET \* the profile of column i
        ColumnProfile(sch0, B2, row_count, i) ==
            LET \* MIN, MAX, AVG, MEDIAN, STDDEV of column i; all None without a non-null
                \* value, STDDEV None for a single one.  mean and median are in
                \* ten-thousandths, stddev is given by its square as a fraction.
                NumericStats(B1, i1) ==
                    LET \* round(n / d, 4) in ten-thousandths, n of either sign
                        RoundRatio4(n, d) == IF n < 0 THEN 0 - Round4(0 - n, d) ELSE Round4(n, d)
                        \* the non-null values of column i, each once per row, in ascending order
                        RECURSIVE SortedValues(_, _)
                        SortedValues(B0, i0) ==
                            LET present == {r \in DOMAIN B0 : ~IsNull(r[i0])}
                            IN IF present = {} THEN <<>>
                               ELSE LET least == CHOOSE r \in present : \A q \in present : r[i0][1] <= q[i0][1]
                                    IN Replicate(least[i0][1], B0[least])
                                       \o SortedValues(Restrict(B0, DOMAIN B0 \ {least}), i0)
                        \* MEDIAN(col), in ten-thousandths: the middle value, or the mean of the two
                        \* middle values
                        Median4(values) ==
                            LET n == Len(values)
                            IN IF n % 2 = 1 THEN 10000 * values[(n + 1) \div 2]
                               ELSE 5000 * (values[n \div 2] + values[(n \div 2) + 1])
                    IN  LET values == SortedValues(B1, i1)
                            n == Len(values)
                            st == RowStats(B1, i1)
                        IN IF n = 0
                           THEN [min |-> None, max |-> None, mean |-> None, median |-> None, stddev |-> None]
                           ELSE [min |-> 10000 * values[1], max |-> 10000 * values[n],
                                 mean |-> RoundRatio4(SumSeq(values), n),
                                 median |-> Median4(values),
                                 stddev |-> IF n < 2 THEN None
                                            ELSE [square |-> <<st.q, st.count * st.count * st.divisor>>]]
                \* stats["top_values"]
                TopValues(B1, i1, type) ==
                    LET \* str(v[0]) of a fetched value: None, an int, or a float with an integral value
                        ValueText(v, type0) ==
                            LET IntText(n) == IF n < 0 THEN <<"-">> \o NatText(0 - n) ELSE NatText(n)
                            IN  IF IsNull(v) THEN <<"N","o","n","e">>
                                ELSE IF Contains(Lower(type0), <<"d","o","u","b","l","e">>)
                                THEN IntText(v[1]) \o <<".","0">>
                                ELSE IntText(v[1])
                        \* the groups of column i with their sizes
                        ValueCounts(B0, i0) ==
                            [v \in {r[i0] : r \in DOMAIN B0} |-> CountStar(Restrict(B0, {r \in DOMAIN B0 : r[i0] = v}))]
                        \* ORDER BY cnt DESC: the groups by descending size; groups of one size come
                        \* in an order that the backend fixes for the table
                        RECURSIVE OrderByCountDesc(_)
                        OrderByCountDesc(counts) ==
                            IF DOMAIN counts = {} THEN <<>>
                            ELSE LET top == CHOOSE v \in DOMAIN counts : \A w \in DOMAIN counts : counts[v] >= counts[w]
                                 IN <<top>> \o OrderByCountDesc([w \in DOMAIN counts \ {top} |-> counts[w]])
                    IN  LET counts == ValueCounts(B1, i1)
                            groups == Take(OrderByCountDesc(counts), TopValuesLimit)
                        IN [k \in 1..Len(groups) |->
                              [value |-> ValueText(groups[k], type), count |-> counts[groups[k]]]]
            IN  LET null_count == NullCount(B2, i)
                    distinct == DistinctCount(B2, i)
                IN [column |-> sch0[i].column, type |-> sch0[i].type,
                    null_count |-> null_count, null_rate |-> RateOf(null_count, row_count),
                    distinct_count |-> distinct, unique_rate |-> RateOf(distinct, row_count)]
                   @@ (IF IsNumericForProfile(sch0[i].type) THEN NumericStats(B2, i) ELSE <<>>)
                   @@ (IF distinct <= LowCardinality /\ row_count > 0
                       THEN [top_values |-> TopValues(B2, i, sch0[i].type)] ELSE <<>>)
    IN  LET t == validate_identifier(table)
            s == IF source # None THEN validate_identifier(source) ELSE [value |-> None]
        IN IF Raises(t) THEN t
           ELSE IF Raises(s) THEN s
           ELSE IF ~IsAnalysed(Qualified(t.value, s.value), rel)
           THEN [raised |-> "CatalogException"]
           ELSE LET described == get_schema(t.value, s.value, rel, sch, cat, reg)
                IN IF Raises(described) THEN [raised |-> described.raised]
                   ELSE [table |-> t.value,
                         row_count |-> CountStar(B),
                         column_count |-> Len(described.schema),
                         columns |-> [i \in 1..Len(described.schema) |->
                                        ColumnProfile(described.schema, B, CountStar(B), i)]]

\* the statements profile_table sends
ProfileStmts(table, source, rel, sch, B, cat, reg) ==
    LET RECURSIVE ProfileStmtsFrom(_, _, _)
        ProfileStmtsFrom(sch1, B1, i) ==
            LET \* the statements sent for column i
                ColumnProfileStmts(sch0, B0, i0) ==
                    <<Stmt("null_count", sch0[i0].column), Stmt("distinct_count", sch0[i0].column)>>
                    \o (IF IsNumericForProfile(sch0[i0].type)
                        THEN <<Stmt("numeric_stats", sch0[i0].column)>> ELSE <<>>)
                    \o (IF DistinctCount(B0, i0) <= LowCardinality /\ CountStar(B0) > 0
                        THEN <<Stmt("top_values", sch0[i0].column)>> ELSE <<>>)
            IN  IF i > Len(sch1) THEN <<>>
                ELSE ColumnProfileStmts(sch1, B1, i) \o ProfileStmtsFrom(sch1, B1, i + 1)
    IN  LET t == validate_identifier(table)
            s == IF source # None THEN validate_identifier(source) ELSE [value |-> None]
        IN IF Raises(t) \/ Raises(s) THEN <<>>
           ELSE <<Stmt("row_count", None)>>
                \o (IF ~IsAnalysed(Qualified(t.value, s.value), rel) THEN <<>>
                    ELSE LET described == get_schema(t.value, s.value, rel, sch, cat, reg)
                         IN <<Stmt("describe", None)>>
                            \o (IF Raises(described) THEN <<>>
                                ELSE ProfileStmtsFrom(described.schema, B, 1)))

\* the divisions by row_count the call performs: two for each column
ProfileDivisions(report) ==
    IF Raises(report) \/ report.row_count = 0 THEN 0 ELSE 2 * report.column_count

ProfileTable(table, source) ==
    /\ Qualified(Strip(table), IF source = None THEN None ELSE Strip(source)) \notin DOMAIN catalog
    /\ call' = [op |-> "profile_table", table |-> table, source |-> source]
    /\ result' = ProfileReport(table, source, relname, schema, rows, catalog, registry)
    /\ stmts' = ProfileStmts(table, source, relname, schema, rows, catalog, registry)
    /\ zdivs' = ProfileDivisions(result')
    /\ UNCHANGED <<relname, schema, rows, catalog, registry, files, history, max_history>>

-----------------------------------------------------------------------------
(* summarize *)

\* qualified, as summarize builds it for a table of source src
SummaryQualified(src, table) ==
    IF src.source_type = "sqlite" THEN Qualified(table, src.name) ELSE Quoted(table)

\* "for table in src.tables", from the j-th table on: the entries appended,
\* the last of them the exception if one is raised
RECURSIVE SummaryTablesFrom(_, _, _, _, _, _, _)
SummaryTablesFrom(src, j, rel, sch, B, cat, reg) ==
    LET \* the entry appended for a table, or the exception get_schema raises
        SummaryTable(src0, table, rel1, sch0, B1, cat1, reg0) ==
            LET \* row_count: SELECT COUNT(*) FROM {qualified}, or -1 when the statement raises
                SummaryRowCount(qualified, rel0, B0, cat0) ==
                    IF IsAnalysed(qualified, rel0) THEN CountStar(B0)
                    ELSE IF qualified \in DOMAIN cat0 /\ cat0[qualified].countable
                    THEN cat0[qualified].row_count
                    ELSE 0 - 1
            IN  CHOOSE entry \in
                    {IF Raises(described) THEN [raised |-> described.raised]
                     ELSE [name |-> table,
                           row_count |-> SummaryRowCount(SummaryQualified(src0, table), rel1, B1, cat1),
                           column_count |-> Len(described.schema),
                           columns |-> [i \in 1..Len(described.schema) |-> described.schema[i].column]] :
                        described \in {get_schema(table, src0.name, rel1, sch0, cat1, reg0)}} : TRUE
    IN  IF j > Len(src.tables) THEN <<>>
        ELSE CHOOSE entries \in
                 {IF Raises(entry) THEN <<entry>>
                  ELSE <<entry>> \o SummaryTablesFrom(src, j + 1, rel, sch, B, cat, reg) :
                     entry \in {SummaryTable(src, src.tables[j], rel, sch, B, cat, reg)}} : TRUE

Raised_In(entries) == entries # <<>> /\ Raises(entries[Len(entries)])

\* what summarize returns or raises (a value that is used more than once is
\* bound by x \in {value}, which computes it once)
SummaryReport(rel, sch, B, cat, reg) ==
    LET \* "for src in registry.sources.values()", from the k-th source on
        RECURSIVE SummarySourcesFrom(_, _, _, _, _, _)
        SummarySourcesFrom(k, rel0, sch0, B0, cat0, reg0) ==
            IF k > Len(reg0) THEN <<>>
            ELSE CHOOSE entries \in
                     {IF Raised_In(tables) THEN <<tables[Len(tables)]>>
                      ELSE <<[name |-> reg0[k].name, type |-> reg0[k].source_type, tables |-> tables]>>
                           \o SummarySourcesFrom(k + 1, rel0, sch0, B0, cat0, reg0) :
                         tables \in {SummaryTablesFrom(reg0[k], 1, rel0, sch0, B0, cat0, reg0)}} : TRUE
        RECURSIVE TotalRows(_)
        TotalRows(sources) ==
            LET \* the row counts that summarize adds to total_rows
                RECURSIVE CountedRows(_)
                CountedRows(tables) ==
                    IF tables = <<>> THEN 0
                    ELSE (IF Head(tables).row_count > 0 THEN Head(tables).row_count ELSE 0)
                         + CountedRows(Tail(tables))
            IN  IF sources = <<>> THEN 0
                ELSE CountedRows(Head(sources).tables) + TotalRows(Tail(sources))
        RECURSIVE TotalTables(_)
        TotalTables(sources) ==
            IF sources = <<>> THEN 0 ELSE Len(Head(sources).tables) + TotalTables(Tail(sources))
    IN  CHOOSE summary \in
            {IF Raised_In(sources_summary) THEN sources_summary[Len(sources_summary)]
             ELSE [total_sources |-> Len(sources_summary),
                   total_tables |-> TotalTables(sources_summary),
                   total_rows |-> TotalRows(sources_summary),
                   sources |-> sources_summary] :
                sources_summary \in {SummarySourcesFrom(1, rel, sch, B, cat, reg)}} : TRUE

RECURSIVE SummaryStmts(_, _, _, _, _, _)
SummaryStmts(k, rel, sch, B, cat, reg) ==
    LET \* the statements sent for the tables of src from the j-th on, up to the
        \* statement that raises out of summarize
        RECURSIVE SummaryTableStmts(_, _, _, _, _, _, _)
        SummaryTableStmts(src, j, rel0, sch0, B0, cat0, reg0) ==
            LET CountStmt(qualified) == [kind |-> "row_count", relation |-> qualified]
            IN  IF j > Len(src.tables) THEN <<>>
                ELSE LET described == get_schema(src.tables[j], src.name, rel0, sch0, cat0, reg0)
                     IN <<CountStmt(SummaryQualified(src, src.tables[j]))>> \o described.stmts
                        \o (IF Raises(described) THEN <<>>
                            ELSE SummaryTableStmts(src, j + 1, rel0, sch0, B0, cat0, reg0))
    IN  IF k > Len(reg) THEN <<>>
        ELSE SummaryTableStmts(reg[k], 1, rel, sch, B, cat, reg)
             \o (IF Raised_In(SummaryTablesFrom(reg[k], 1, rel, sch, B, cat, reg)) THEN <<>>
                 ELSE SummaryStmts(k + 1, rel, sch, B, cat, reg))

Summarize ==
    /\ call' = [op |-> "summarize"]
    /\ result' = SummaryReport(relname, schema, rows, catalog, registry)
    /\ stmts' = SummaryStmts(1, relname, schema, rows, catalog, registry)
    /\ zdivs' = 0
    /\ UNCHANGED <<relname, schema, rows, catalog, registry, files, history, max_history>>

-----------------------------------------------------------------------------
(* The backend's reading of a statement text.  duckdb executes the
   statements of a text in order and answers with the result of the last
   one; SourceRegistry.__init__ relies on it ("INSTALL sqlite; LOAD sqlite;").
   A double-quoted identifier ends at the next double quote, so a value
   interpolated between two quotes stays in identifier position only if it
   holds none. *)

\* the least position from i on whose character is in chars; Len(text) + 1
\* if there is none
NextIn(text, i, chars) ==
    LET at == {j \in i..Len(text) : text[j] \in chars}
    IN IF at = {} THEN Len(text) + 1 ELSE CHOOSE j \in at : \A k \in at : j <= k

\* the statements of a text: it is cut at each ';' and ends at a '--'
\* comment (the texts built by the tools hold no line break)
RECURSIVE Statements(_)
Statements(text) ==
    LET \* the position of the first ';' or '--' of text, from position i on, that
        \* lies outside quoted identifiers and string literals; Len(text) + 1 if none
        RECURSIVE BreakAt(_, _, _)
        BreakAt(text0, i, mode) ==
            LET j == NextIn(text0, i, IF mode = "identifier" THEN {"\""}
                                     ELSE IF mode = "string" THEN {"'"}
                                     ELSE {"\"", "'", ";", "-"})
            IN IF j > Len(text0) THEN j
               ELSE IF mode # "sql" THEN BreakAt(text0, j + 1, "sql")
               ELSE IF text0[j] = "\"" THEN BreakAt(text0, j + 1, "identifier")
               ELSE IF text0[j] = "'" THEN BreakAt(text0, j + 1, "string")
               ELSE IF text0[j] = ";" THEN j
               ELSE IF j < Len(text0) /\ text0[j + 1] = "-" THEN j
               ELSE BreakAt(text0, j + 1, "sql")
    IN  LET b == BreakAt(text, 1, "sql")
            first == Strip(SubSeq(text, 1, b - 1))
            here == IF first = <<>> THEN <<>> ELSE <<first>>
        IN IF b > Len(text) \/ text[b] # ";" THEN here
           ELSE here \o Statements(SubSeq(text, b + 1, Len(text)))

sql_select_avg == <<"S","E","L","E","C","T"," ","A","V","G","(">>
sql_from == <<")"," ","F","R","O","M"," ">>
sql_drop_view == <<"D","R","O","P"," ","V","I","E","W"," ">>
sql_select_zeros == <<"S","E","L","E","C","T"," ","0",","," ","0",","," ","0">>

\* the statistics query of row-level mode
StatsQueryText(qualified, safe_col) ==
    LET sql_stddev == <<")",","," ","S","T","D","D","E","V","(">>
        sql_count_from == <<")",","," ","C","O","U","N","T","(","*",")"," ","F","R","O","M"," ">>
        sql_is_not_null == <<" ","I","S"," ","N","O","T"," ","N","U","L","L">>
    IN  sql_select_avg \o safe_col \o sql_stddev \o safe_col \o sql_count_from
        \o qualified \o sql_where \o safe_col \o sql_is_not_null

\* f"{trimmed} LIMIT {limit}"
WithLimit(trimmed, limit) ==
    LET sql_limit == <<" ","L","I","M","I","T"," ">>
    IN  trimmed \o sql_limit \o NatText(limit)

Invalid == [kind |-> "invalid"]

\* self._conn.execute(text)
Execute(text, rel, sch) ==
    LET \* the statements parts[k..] executed in order: the relation that is left
        \* and the meaning of the last statement executed, Invalid if one failed
        RECURSIVE RunFrom(_, _, _, _, _)
        RunFrom(parts, k, rel1, sch1, last) ==
            LET \* what a statement means to the backend when its only relation is the view
                \* rel with schema sch (rel = None: there is none).  Recognised are the
                \* statements of detect_anomalies over a numeric column (and a timestamp
                \* column) of rel, SELECT AVG(col) FROM rel, DROP VIEW rel and
                \* SELECT 0, 0, 0; any other text is answered with an error.
                Classify(s, rel0, sch0) ==
                    LET \* a column CAST(... AS DATE) accepts
                        IsTimestampType(type) == Contains(Lower(type), <<"t","i","m","e","s","t","a","m","p">>)
                    IN  LET q == Quoted(rel0)
                            numeric == {sch0[i].column : i \in {j \in 1..Len(sch0) : IsNumericType(sch0[j].type)}}
                            times == {sch0[i].column : i \in {j \in 1..Len(sch0) : IsTimestampType(sch0[j].type)}}
                        IN IF s = sql_select_zeros THEN [kind |-> "zeros"]
                           ELSE IF rel0 = None THEN Invalid
                           ELSE IF s = sql_drop_view \o q THEN [kind |-> "drop"]
                           ELSE IF \E c \in numeric : s = StatsQueryText(q, Quoted(c))
                           THEN [kind |-> "stats", column |-> CHOOSE c \in numeric : s = StatsQueryText(q, Quoted(c))]
                           ELSE IF \E c \in numeric : s = sql_select_avg \o Quoted(c) \o sql_from \o q
                           THEN [kind |-> "avg"]
                           ELSE IF \E c \in numeric, tc \in times :
                                      s \in {AggQueryText(q, Quoted(c), Quoted(tc)),
                                             WithLimit(AggQueryText(q, Quoted(c), Quoted(tc)), DailyLimit)}
                           THEN [kind |-> "daily_aggregation"]
                           ELSE IF \E c \in numeric :
                                      s \in {RowQueryText(q, Quoted(c)),
                                             WithLimit(RowQueryText(q, Quoted(c)), RowLevelLimit)}
                           THEN [kind |-> "outliers"]
                           ELSE Invalid
            IN  IF k > Len(parts) THEN [rel |-> rel1, last |-> last]
                ELSE LET meaning == Classify(parts[k], rel1, sch1)
                     IN IF meaning = Invalid THEN [rel |-> rel1, last |-> Invalid]
                        ELSE RunFrom(parts, k + 1, IF meaning.kind = "drop" THEN None ELSE rel1, sch1, meaning)
    IN  RunFrom(Statements(text), 1, rel, sch, Invalid)

-----------------------------------------------------------------------------
(* The identifier texts the tools are called with and the queries built
   from them *)

\* "'; DROP TABLE users--" after a name, as in tests/test_validation.py
DropTableSuffix ==
    <<"'",";"," ","D","R","O","P"," ","T","A","B","L","E"," ","u","s","e","r","s","-","-">>

\* a column text that closes the quoted identifier and the statement, drops
\* the view and leaves a statement answering (0, 0, 0)
DropViewPayload(column, view) ==
    column \o <<"\"">> \o sql_from \o Quoted(view) \o <<";", " ">>
    \o sql_drop_view \o Quoted(view) \o <<";", " ">>
    \o sql_select_zeros \o <<" ", "-", "-">>

TableArgs == {n_pq, n_users \o DropTableSuffix}
SourceArgs == {None, n_db \o DropTableSuffix}
ColumnArgs == {n_value, n_id \o DropTableSuffix, DropViewPayload(n_value, n_pq)}
TimeColumnArgs == {None, n_created_at}

\* LimitAppended, tabulated over these texts
LimitAppendedIn ==
    LET \* the texts detect_anomalies hands to query() for these arguments
        ArgumentQueryTexts ==
            {AggQueryText(Qualified(t, s), Quoted(c), Quoted(tc)) :
                t \in TableArgs, s \in SourceArgs, c \in ColumnArgs, tc \in TimeColumnArgs \ {None}}
    IN  [sql \in ArgumentQueryTexts |-> LimitAppended(sql)]

-----------------------------------------------------------------------------
(* detect_anomalies, for any identifiers *)

\* the first statement text of the call, as the backend receives it
FirstAnomalyText(table, column, time_column, source) ==
    LET \* the text query() executes
        QueryText(sql, limit) ==
            IF LimitAppendedIn[sql] THEN WithLimit(Trimmed(sql), limit) ELSE Trimmed(sql)
    IN  IF time_column # None
        THEN QueryText(AggQueryText(Qualified(table, source), Quoted(column), Quoted(time_column)),
                       DailyLimit)
        ELSE StatsQueryText(Qualified(table, source), Quoted(column))

\* the report for the statistics (0, 0, 0) or for a single daily row
DegenerateReport(table, column, time_column, zt) ==
    IF time_column # None
    THEN [table |-> table, column |-> column, anomalies |-> <<>>,
          message |-> "Not enough data points for anomaly detection"]
    ELSE [table |-> table, column |-> column, method |-> "z_score_row_level",
          z_threshold |-> zt,
          stats |-> [mean |-> <<0, 1>>, stddev_positive |-> FALSE, count |-> 0],
          anomalies |-> <<>>, anomaly_count |-> 0]

\* detect_anomalies(table, column, time_column, source, z_threshold): no
\* argument is validated; the texts are built and executed
DetectAnomaliesOn(table, column, time_column, source, zt) ==
    \E run \in {Execute(FirstAnomalyText(table, column, time_column, source), relname, schema)} :
    LET answered == run.last.kind \in {"stats", "daily_aggregation"}
    IN /\ call' = [op |-> "detect_anomalies", table |-> table, column |-> column,
                   time_column |-> time_column, source |-> source, z_threshold |-> zt]
       /\ result' = IF answered
                    THEN (IF time_column # None
                          THEN DailyReport(table, column, time_column, source, zt)
                          ELSE RowLevelReport(table, column, source, zt))
                    ELSE IF run.last.kind = "zeros"
                    THEN DegenerateReport(table, column, time_column, zt)
                    ELSE IF run.last = Invalid THEN [raised |-> "duckdb.Error"]
                    ELSE [raised |-> "TypeError"]
       /\ stmts' = IF answered
                   THEN (IF time_column # None
                         THEN DailyStmts(table, column, time_column, source)
                         ELSE RowLevelStmts(table, column, source))
                   ELSE IF time_column # None
                   THEN <<QueryStmt("daily_aggregation", column, 0)>>
                   ELSE <<Stmt("stats", column)>>
       /\ zdivs' = IF answered /\ time_column # None
                   THEN DailyDivisions(table, column, time_column, source)
                   ELSE 0
       /\ relname' = run.rel
       /\ schema' = IF run.rel = None THEN <<>> ELSE schema
       /\ rows' = IF run.rel = None THEN EmptyBag ELSE rows
       /\ UNCHANGED <<catalog, registry, files, history, max_history>>

-----------------------------------------------------------------------------
(* detect_quality_issues, for any identifiers *)

\* what detect_quality_issues(table, source) returns or raises: get_schema
\* validates and describes, then the rows of {qualified} are counted
QualityOutcome(table, source, rel, sch, B, cat, reg) ==
    LET described == get_schema(table, source, rel, sch, cat, reg)
    IN IF Raises(described) THEN [f \in DOMAIN described \ {"stmts"} |-> described[f]]
       ELSE IF ~IsAnalysed(Qualified(table, source), rel)
       THEN [raised |-> "CatalogException"]
       ELSE QualityReport(table, described.schema, B)

\* the statements it sends
QualityOutcomeStmts(table, source, rel, sch, B, cat, reg) ==
    LET described == get_schema(table, source, rel, sch, cat, reg)
    IN IF Raises(described) THEN described.stmts
       ELSE IF ~IsAnalysed(Qualified(table, source), rel)
       THEN <<Stmt("describe", None), Stmt("row_count", None)>>
       ELSE QualityStmts(described.schema, B)

DetectQualityIssuesOn(table, source) ==
    /\ Qualified(table, source) \notin DOMAIN catalog
    /\ call' = [op |-> "detect_quality_issues", table |-> table, source |-> source]
    /\ result' = QualityOutcome(table, source, relname, schema, rows, catalog, registry)
    /\ stmts' = QualityOutcomeStmts(table, source, relname, schema, rows, catalog, registry)
    /\ zdivs' = 0
    /\ UNCHANGED <<relname, schema, rows, catalog, registry, files, history, max_history>>

-----------------------------------------------------------------------------
(* SourceRegistry.connect and disconnect.  In the specification of the
   registry the catalog holds the objects connect creates, keyed by their
   kind ("database" or "view") and their name; the backend compares names
   without regard to case.  A file is a SQLite database with its tables, a
   Parquet file or a CSV file. *)

\* Path(path).resolve(), for a path without '.', '..' and symbolic links
resolve(path) ==
    LET \* the working directory
        Cwd == <<"/","w">>
    IN  IF path = <<>> THEN Cwd
        ELSE IF path[1] = "/" THEN path
        ELSE Cwd \o <<"/">> \o path

\* validate_path(value, label): the value, or the ValueError
validate_path(value) ==
    IF Strip(value) = <<>>
    THEN [raised |-> "ValueError", message |-> "must not be empty"]
    ELSE IF \E i \in 1..Len(value) : value[i] \in {"'", "\"", ";"}
    THEN [raised |-> "ValueError", message |-> "disallowed characters"]
    ELSE IF Contains(value, <<"-","-">>)
    THEN [raised |-> "ValueError", message |-> "disallowed character sequences"]
    ELSE [value |-> value]

IsRegistered_Never(reg, name) == FALSE

\* name in self._sources
IsRegistered(reg, name) == \E k \in 1..Len(reg) : reg[k].name = name

\* the key of a catalog object
CatalogKey(kind, name) == <<kind, Lower(name)>>

\* connect(name, source_type, path): the DataSource or the exception, the
\* statements sent, and the catalog and the sources the call leaves
Connect(name, source_type, path) ==
    LET connect(cat, reg, fs) ==
            LET \* SourceType(source_type.lower())
                SourceType(text) ==
                    LET low == Lower(text)
                    IN IF low = <<"s","q","l","i","t","e">> THEN [value |-> "sqlite"]
                       ELSE IF low = <<"p","a","r","q","u","e","t">> THEN [value |-> "parquet"]
                       ELSE IF low = <<"c","s","v">> THEN [value |-> "csv"]
                       ELSE [raised |-> "ValueError", message |-> "not a valid SourceType"]
                checked == validate_identifier(name)
                known == SourceType(source_type)
                resolved == resolve(path)
                same(raised) == [result |-> raised, stmts |-> <<>>, catalog |-> cat, registry |-> reg]
            IN  IF Raises(checked) THEN same(checked)
                ELSE IF IsRegistered(reg, checked.value)
                THEN same([raised |-> "ValueError", message |-> "already registered"])
                ELSE IF Raises(known) THEN same(known)
                ELSE IF Raises(validate_path(resolved)) THEN same(validate_path(resolved))
                ELSE IF (\A i \in 1..Len(resolved) : resolved[i] # "*") /\ resolved \notin DOMAIN fs
                THEN same([raised |-> "FileNotFoundError"])
                ELSE LET alias == checked.value
                         stype == known.value
                         source(tables) == [name |-> alias, source_type |-> stype,
                                            path |-> resolved, tables |-> tables]
                         failed == [raised |-> "duckdb.Error"]
                     IN IF stype = "sqlite"
                        THEN LET attach == [kind |-> "attach", path |-> resolved, alias |-> alias]
                                 discover == [kind |-> "tables", table_catalog |-> alias]
                                 db == CatalogKey("database", alias)
                                 attached == (db :> [name |-> alias, path |-> resolved]) @@ cat
                             IN \* ATTACH opens the file under a new alias; its content
                                \* is first read by the discovery query
                                IF resolved \notin DOMAIN fs \/ db \in DOMAIN cat
                                THEN [result |-> failed, stmts |-> <<attach>>,
                                      catalog |-> cat, registry |-> reg]
                                ELSE IF fs[resolved].kind # "sqlite"
                                THEN [result |-> failed, stmts |-> <<attach, discover>>,
                                      catalog |-> attached, registry |-> reg]
                                ELSE [result |-> source(fs[resolved].tables),
                                      stmts |-> <<attach, discover>>,
                                      catalog |-> attached,
                                      registry |-> Append(reg, source(fs[resolved].tables))]
                        ELSE LET create == [kind |-> "create_or_replace_view", view |-> alias,
                                            reader |-> stype, path |-> resolved]
                                 view == CatalogKey("view", alias)
                             IN \* the view is bound when it is created: the reader
                                \* opens the file
                                IF resolved \notin DOMAIN fs \/ fs[resolved].kind # stype
                                THEN [result |-> failed, stmts |-> <<create>>,
                                      catalog |-> cat, registry |-> reg]
                                ELSE [result |-> source(<<alias>>), stmts |-> <<create>>,
                                      catalog |-> (view :> [name |-> alias, path |-> resolved]) @@ cat,
                                      registry |-> Append(reg, source(<<alias>>))]
    IN  \E outcome \in {connect(catalog, registry, files)} :
           /\ call' = [op |-> "connect", name |-> name, source_type |-> source_type,
                       path |-> path]
           /\ result' = outcome.result
           /\ stmts' = outcome.stmts
           /\ catalog' = outcome.catalog
           /\ registry' = outcome.registry
           /\ zdivs' = 0
           /\ UNCHANGED <<relname, schema, rows, files, history, max_history>>

\* disconnect(name): None or the exception, the statements sent, and the
\* catalog and the sources the call leaves
Disconnect(name) ==
    LET disconnect(cat, reg) ==
            LET checked == validate_identifier(name)
                same(raised) == [result |-> raised, stmts |-> <<>>, catalog |-> cat, registry |-> reg]
            IN  IF Raises(checked) THEN same(checked)
                ELSE IF ~IsRegistered(reg, checked.value)
                THEN same([raised |-> "ValueError", message |-> "not registered"])
                ELSE LET alias == checked.value
                         source == reg[CHOOSE k \in 1..Len(reg) : reg[k].name = alias]
                         without(key) == [o \in DOMAIN cat \ {key} |-> cat[o]]
                         rest == SelectSeq(reg, LAMBDA r : r.name # alias)
                     IN IF source.source_type = "sqlite"
                        THEN LET detach == [kind |-> "detach", alias |-> alias]
                             IN IF CatalogKey("database", alias) \notin DOMAIN cat
                                THEN [result |-> [raised |-> "duckdb.Error"], stmts |-> <<detach>>,
                                      catalog |-> cat, registry |-> reg]
                                ELSE [result |-> [returned |-> None], stmts |-> <<detach>>,
                                      catalog |-> without(CatalogKey("database", alias)),
                                      registry |-> rest]
                        ELSE \* tables holds the one view of a file source
                             [result |-> [returned |-> None],
                              stmts |-> [k \in 1..Len(source.tables) |->
                                            [kind |-> "drop_view_if_exists", view |-> source.tables[k]]],
                              catalog |-> without(CatalogKey("view", alias)),
                              registry |-> rest]
    IN  \E outcome \in {disconnect(catalog, registry)} :
           /\ call' = [op |-> "disconnect", name |-> name]
           /\ result' = outcome.result
           /\ stmts' = outcome.stmts
           /\ catalog' = outcome.catalog
           /\ registry' = outcome.registry
           /\ zdivs' = 0
           /\ UNCHANGED <<relname, schema, rows, files, history, max_history>>

-----------------------------------------------------------------------------
(* RecipeStore.  A ChartRecipe is represented by its creation time and its
   chart type; create_chart stamps each recipe with the current time before
   it pushes it. *)

Push_NoEviction(recipe) ==
    /\ call' = [op |-> "push", recipe |-> recipe]
    /\ history' = Append(history, recipe)
    /\ result' = [returned |-> None]
    /\ stmts' = <<>>
    /\ zdivs' = 0
    /\ UNCHANGED <<relname, schema, rows, catalog, registry, files, max_history>>

\* push(recipe)
Push(recipe) ==
    /\ call' = [op |-> "push", recipe |-> recipe]
    /\ history' = LET appended == Append(history, recipe)
                  IN IF Len(appended) > max_history THEN Tail(appended) ELSE appended
    /\ result' = [returned |-> None]
    /\ stmts' = <<>>
    /\ zdivs' = 0
    /\ UNCHANGED <<relname, schema, rows, catalog, registry, files, max_history>>

\* the property last
last(h) == IF h # <<>> THEN h[Len(h)] ELSE None

\* get(index): h[index] as Python indexes a list, None on IndexError
get(h, index) ==
    IF 0 <= index /\ index < Len(h) THEN h[index + 1]
    ELSE IF index < 0 /\ -Len(h) <= index THEN h[Len(h) + index + 1]
    ELSE None

-----------------------------------------------------------------------------
(* export_data.  The COPY text is read by the backend as any text is: a
   string literal ends at the next single quote, the statements of the text
   are parsed together and then executed in order.  Directories are not
   modelled, so the mkdir of the parent directory leaves no trace. *)

\* export_data(sql, output_path, format)
ExportData(sql, output_path, format) ==
    LET fmt == Lower(format)
        parquet == <<"p","a","r","q","u","e","t">>
        resolved == resolve(output_path)
        trimmed == Trimmed(sql)
        copy_to == <<"C","O","P","Y"," ","(">> \o trimmed \o <<")"," ","T","O"," ","'">>
        options == IF fmt = parquet THEN <<" ","(","F","O","R","M","A","T"," ","P","A","R","Q","U","E","T",")">>
                   ELSE <<" ","(","F","O","R","M","A","T"," ","C","S","V",","," ","H","E","A","D","E","R",")">>
        text == copy_to \o resolved \o <<"'">> \o options
        \* what one statement of the text means to the backend; a COPY without
        \* options writes CSV
        Reading(s) ==
            IF Len(s) > Len(copy_to) /\ SubSeq(s, 1, Len(copy_to)) = copy_to
            THEN LET close == NextIn(s, Len(copy_to) + 1, {"'"})
                     target == SubSeq(s, Len(copy_to) + 1, close - 1)
                     rest == Strip(SubSeq(s, close + 1, Len(s)))
                 IN IF close > Len(s) THEN Invalid
                    ELSE IF rest = <<>> THEN [kind |-> "copy", path |-> target, format |-> "csv"]
                    ELSE IF rest = Strip(options)
                    THEN [kind |-> "copy", path |-> target,
                          format |-> IF fmt = parquet THEN "parquet" ELSE "csv"]
                    ELSE Invalid
            ELSE IF s = <<"D","R","O","P"," ","T","A","B","L","E"," ","u","s","e","r","s">> THEN [kind |-> "drop_table"]
            ELSE Invalid
    IN  \E parts \in {Statements(text)} :
        \E readings \in {[k \in 1..Len(parts) |-> Reading(parts[k])]} :
        LET parsed == \A k \in 1..Len(parts) : readings[k] # Invalid
            \* the first statement that fails: the default catalog has no table users
            failing == NextIn(readings, 1, {[kind |-> "drop_table"]})
            copies == {k \in 1..Len(parts) : k < failing /\ parsed}
            written == [p \in {readings[k].path : k \in copies} |->
                           [kind |-> readings[CHOOSE k \in copies : readings[k].path = p].format]]
        IN  /\ call' = [op |-> "export_data", sql |-> sql, output_path |-> output_path,
                        format |-> format]
            /\ zdivs' = 0
            /\ IF fmt \notin {parquet, <<"c","s","v">>}
               THEN /\ result' = [raised |-> "ValueError", message |-> "Unsupported format"]
                    /\ stmts' = <<>>
                    /\ files' = files
               ELSE /\ files' = written @@ files
                    /\ IF ~parsed \/ failing <= Len(parts)
                       THEN /\ result' = [raised |-> "duckdb.Error"]
                            /\ stmts' = <<[kind |-> "copy", text |-> text]>>
                       ELSE /\ stmts' = <<[kind |-> "copy", text |-> text],
                                          [kind |-> "row_count", text |-> trimmed]>>
                            /\ result' = IF resolved \in DOMAIN files'
                                         THEN [status |-> "exported", path |-> resolved,
                                               format |-> fmt, row_count |-> 1]
                                         ELSE [raised |-> "FileNotFoundError"]
            /\ UNCHANGED <<relname, schema, rows, catalog, registry, history, max_history>>

-----------------------------------------------------------------------------
(* Tables *)

Col(name, type) == [column |-> name, type |-> type]

t_bigint == <<"B","I","G","I","N","T">>
t_varchar == <<"V","A","R","C","H","A","R">>
t_double == <<"D","O","U","B","L","E">>
t_timestamp == <<"T","I","M","E","S","T","A","M","P">>

\* all bags of at most n rows drawn from dom
RECURSIVE BagsUpTo(_, _)
BagsUpTo(dom, n) ==
    IF n = 0 THEN {EmptyBag}
    ELSE LET prev == BagsUpTo(dom, n - 1)
         IN prev \cup {b (+) SetToBag({r}) : b \in prev, r \in dom}

\* all rows of the given width over the value domain dom
RowsOver(dom, width) == [1..width -> dom]

\* DataSource(name, SourceType.CSV, path, [name]): a file source, whose view
\* is named by the alias
FileSource(name) == [name |-> name, source_type |-> "csv", tables |-> <<name>>]

\* no relation besides the analysed one
NoRelations == [n \in {} |-> {}]

\* the files of the working directory: a SQLite database and a Parquet file
Directory ==
    (<<"/","w","/","s",".","d","b">> :> [kind |-> "sqlite", tables |-> <<n_users, n_orders>>])
    @@ (<<"/","w","/","p",".","p","q">> :> [kind |-> "parquet"])

\* RecipeStore(max_history=20)
DefaultMaxHistory == 20

NoCall == [op |-> "none"]
NoResult == [pending |-> TRUE]

-----------------------------------------------------------------------------
(* Specification of the quality scan over small tables *)

InitQuality ==
    LET QualityValues == {NULL, Val(-1), Val(1)}
        QualitySchemas ==
            LET t_boolean == <<"B","O","O","L","E","A","N">>
                t_decimal == <<"D","E","C","I","M","A","L","(","1","0",",","2",")">>
            IN  { <<Col(<<"i","d">>, t_bigint), Col(<<"n","a","m","e">>, t_varchar),
                    Col(<<"a","m","o","u","n","t">>, t_double)>>,
                  <<Col(<<"n","a","m","e">>, t_varchar), Col(<<"A","m","o","u","n","t">>, t_varchar)>>,
                  <<Col(<<"U","S","E","R","_","I","D">>, t_bigint), Col(<<"u","u","i","d">>, t_varchar)>>,
                  <<Col(<<"p","a","i","d">>, t_boolean), Col(<<"b","a","l","a","n","c","e">>, t_decimal)>>,
                  <<Col(<<"T","o","t","a","l","_","C","o","s","t">>, t_bigint)>> }
    IN  /\ relname = n_users
        /\ schema \in QualitySchemas
        /\ rows \in BagsUpTo(RowsOver(QualityValues, Len(schema)), MaxRows)
        /\ call = NoCall
        /\ result = NoResult
        /\ stmts = <<>>
        /\ zdivs = 0
        /\ files = Directory
        /\ history = <<>>
        /\ max_history = DefaultMaxHistory
        /\ catalog = NoRelations
        /\ registry = <<FileSource(relname)>>

NextQuality == DetectQualityIssues

SpecQuality == InitQuality /\ [][NextQuality]_vars

-----------------------------------------------------------------------------
(* Specification of the quality scan over tables of up to MaxNullRows rows *)

InitNullRate ==
    LET NullRateValues == {NULL, Val(1)}
        NullRateSchema == <<Col(<<"i","d">>, t_bigint), Col(<<"e","m","a","i","l">>, t_varchar)>>
    IN  /\ relname = n_users
        /\ schema = NullRateSchema
        /\ rows \in BagsUpTo(RowsOver(NullRateValues, Len(schema)), MaxNullRows)
        /\ call = NoCall
        /\ result = NoResult
        /\ stmts = <<>>
        /\ zdivs = 0
        /\ files = Directory
        /\ history = <<>>
        /\ max_history = DefaultMaxHistory
        /\ catalog = NoRelations
        /\ registry = <<FileSource(relname)>>

NextNullRate == DetectQualityIssues

SpecNullRate == InitNullRate /\ [][NextNullRate]_vars

-----------------------------------------------------------------------------
(* Specification of the quality scan over tables with duplicate groups *)

InitDuplicates ==
    LET DupSchemas ==
            { <<Col(<<"i","d">>, t_bigint), Col(<<"n","a","m","e">>, t_varchar)>>,
              <<Col(<<"p","r","i","c","e","_","i","d">>, t_bigint),
                Col(<<"a","m","o","u","n","t">>, t_double)>>,
              <<Col(<<"n","a","m","e">>, t_varchar), Col(<<"e","m","a","i","l">>, t_varchar)>>,
              <<Col(<<"U","S","E","R","_","I","D">>, t_bigint), Col(<<"u","u","i","d">>, t_varchar)>> }
        DupTable(u, e, s, m) ==
            LET \* u rows that occur once and share no value with another row
                UniqueRows(u0) == {<<Val(k), Val(k)>> : k \in 1..u0}
                \* e rows that occur twice each
                ExactGroups(e0) == {<<Val(0 - k), Val(0 - k)>> : k \in 1..e0}
                \* s pairs of rows that differ in the first column only; the first pair is
                \* NULL in the second column
                SemanticGroups(s0) ==
                    UNION {{<<Val(1000 + 2 * k), IF k = 1 THEN NULL ELSE Val(1000 + k)>>,
                            <<Val(1001 + 2 * k), IF k = 1 THEN NULL ELSE Val(1000 + k)>>} : k \in 1..s0}
                \* m pairs of rows that differ in the first column only and occur twice each
                MergedGroups(m0) ==
                    UNION {{<<Val(2000 + 2 * k), Val(2000 + k)>>,
                            <<Val(2001 + 2 * k), Val(2000 + k)>>} : k \in 1..m0}
            IN  [r \in UniqueRows(u) \cup SemanticGroups(s) |-> 1]
                @@ [r \in ExactGroups(e) \cup MergedGroups(m) |-> 2]
        \* tables of a few rows, and tables of about a hundred rows, where one
        \* duplicate group is 1% of the rows
        DistinctRowCounts == (0..3) \cup ((MaxDistinctRows - 6)..MaxDistinctRows)
    IN  /\ relname = n_users
        /\ schema \in DupSchemas
        /\ \E u \in DistinctRowCounts, e \in 0..MaxDupGroups, s \in 0..MaxDupGroups, m \in 0..1 :
              rows = DupTable(u, e, s, m)
        /\ call = NoCall
        /\ result = NoResult
        /\ stmts = <<>>
        /\ zdivs = 0
        /\ files = Directory
        /\ history = <<>>
        /\ max_history = DefaultMaxHistory
        /\ catalog = NoRelations
        /\ registry = <<FileSource(relname)>>

NextDuplicates == DetectQualityIssues

SpecDuplicates == InitDuplicates /\ [][NextDuplicates]_vars

-----------------------------------------------------------------------------
(* Specification of detect_anomalies over a table with a timestamp column *)

\* z_threshold as <<numerator, denominator>>: 1.0, 1.25 and the default 3.0
TimeThresholds == {<<1, 1>>, <<5, 4>>, <<3, 1>>}

InitTimeSeries ==
    LET TimeSchema == <<Col(n_created_at, t_timestamp), Col(n_amount, t_bigint)>>
        TimeRowDomain ==
            LET \* timestamps in hours: 24 and 36 fall on the same day
                TimeStamps == {0, 24, 36, 48, 72}
                TimeValues == {NULL, Val(0), Val(10)}
            IN  {<<Val(h), v>> : h \in TimeStamps, v \in TimeValues}
        \* one row per day over n days, of value 0 except for 10 on day high
        LongSeries ==
            LET Series(n, high) ==
                    SetToBag({<<Val(HoursPerDay * d), Val(IF d = high THEN 10 ELSE 0)>> :
                                 d \in 0..(n - 1)})
            IN  {Series(n, high) : n \in (MaxTimeRows + 1)..MaxDays, high \in 0..(MaxDays - 1)}
    IN  /\ relname = n_orders
        /\ schema = TimeSchema
        /\ rows \in BagsUpTo(TimeRowDomain, MaxTimeRows) \cup LongSeries
        /\ call = NoCall
        /\ result = NoResult
        /\ stmts = <<>>
        /\ zdivs = 0
        /\ files = Directory
        /\ history = <<>>
        /\ max_history = DefaultMaxHistory
        /\ catalog = NoRelations
        /\ registry = <<FileSource(relname)>>

NextTimeSeries ==
    \E zt \in TimeThresholds, time_column \in {None, n_created_at} :
        DetectAnomalies(n_amount, time_column, zt)

SpecTimeSeries == InitTimeSeries /\ [][NextTimeSeries]_vars

-----------------------------------------------------------------------------
(* Specification of row-level detect_anomalies *)

\* z_threshold as <<numerator, denominator>>: 0.5, 1.0, 1.25, 1.5 and 3.0
RowLevelThresholds == {<<1, 2>>, <<1, 1>>, <<5, 4>>, <<3, 2>>, <<3, 1>>}

InitRowLevel ==
    LET RowLevelSchemas == {<<Col(n_value, t_double)>>, <<Col(n_credit_limit, t_double)>>}
        RowLevelValues == {NULL, Val(0), Val(10)}
        \* the values of the parquet fixture
        ExampleTable == SetToBag({<<Val(10)>>, <<Val(20)>>, <<Val(30)>>, <<Val(1000)>>, <<Val(25)>>})
        BulkTables ==
            LET \* a rows of value 0 and b rows of value 1
                Bulk(a, b) ==
                    [r \in {<<Val(v)>> : v \in {x \in {0} : a > 0} \cup {x \in {1} : b > 0}} |->
                        IF r = <<Val(0)>> THEN a ELSE b]
            IN  {Bulk(p[1], p[2]) :
                    p \in {q \in (0..MaxBulkRows) \X (0..MaxBulkRows) :
                              q[1] + q[2] \in (MaxBulkRows - 2)..MaxBulkRows}}
    IN  /\ relname = n_pq
        /\ schema \in RowLevelSchemas
        /\ rows \in BagsUpTo(RowsOver(RowLevelValues, 1), MaxRowLevelRows)
                    \cup {ExampleTable} \cup BulkTables
        /\ call = NoCall
        /\ result = NoResult
        /\ stmts = <<>>
        /\ zdivs = 0
        /\ files = Directory
        /\ history = <<>>
        /\ max_history = DefaultMaxHistory
        /\ catalog = NoRelations
        /\ registry = <<FileSource(relname)>>

NextRowLevel == \E zt \in RowLevelThresholds : DetectAnomalies(schema[1].column, None, zt)

SpecRowLevel == InitRowLevel /\ [][NextRowLevel]_vars

-----------------------------------------------------------------------------
(* Specification of compare_schemas over a parquet view and two tables of an
   attached SQLite database *)

n_name == <<"n","a","m","e">>
n_email == <<"e","m","a","i","l">>
n_user_id == <<"u","s","e","r","_","i","d">>

\* a relation of the catalog: its schema and row count, and whether the
\* backend can count and describe it
Relation(sch, row_count, countable, describable) ==
    [schema |-> sch, row_count |-> row_count,
     countable |-> countable, describable |-> describable]

\* DataSource(name, SourceType.SQLITE, path, tables)
SqliteSource(name, tables) == [name |-> name, source_type |-> "sqlite", tables |-> tables]

\* the (table, source) pairs compare_schemas is called with
ComparedTables == {<<n_pq, None>>, <<n_pq, n_pq>>, <<n_users, n_db>>, <<n_orders, n_db>>}

InitCompare ==
    LET \* the schema of the users table, versions of it that drifted, and the
        \* schema of the orders table with one drifted version
        ComparedSchemas ==
            { <<Col(n_id, t_bigint), Col(n_name, t_varchar), Col(n_email, t_varchar)>>,
              <<Col(n_id, t_bigint), Col(n_name, t_varchar)>>,
              <<Col(n_id, t_varchar), Col(n_name, t_varchar), Col(n_email, t_varchar)>>,
              <<Col(n_email, t_varchar), Col(n_name, t_varchar), Col(n_id, t_bigint)>>,
              <<Col(n_id, t_bigint), Col(n_user_id, t_bigint), Col(n_amount, t_double)>>,
              <<Col(<<"I","D">>, t_bigint), Col(n_amount, t_bigint)>> }
    IN  /\ relname = n_pq
        /\ schema \in ComparedSchemas
        /\ rows = EmptyBag
        /\ call = NoCall
        /\ result = NoResult
        /\ stmts = <<>>
        /\ zdivs = 0
        /\ files = Directory
        /\ history = <<>>
        /\ max_history = DefaultMaxHistory
        /\ \E sa, sb \in ComparedSchemas :
              catalog = (Qualified(n_users, n_db) :> Relation(sa, 0, TRUE, TRUE))
                        @@ (Qualified(n_orders, n_db) :> Relation(sb, 0, TRUE, TRUE))
        /\ registry = <<FileSource(n_pq), SqliteSource(n_db, <<n_users, n_orders>>)>>

NextCompare == \E a, b \in ComparedTables : CompareSchemas(a[1], b[1], a[2], b[2])

SpecCompare == InitCompare /\ [][NextCompare]_vars

-----------------------------------------------------------------------------
(* Specification of profile_table over small tables *)

NextProfile == \E source \in {None, relname} : ProfileTable(relname, source)

SpecProfile == InitQuality /\ [][NextProfile]_vars

-----------------------------------------------------------------------------
(* Specification of summarize over a parquet view and an attached SQLite
   database, some of whose tables the backend can no longer read *)

InitSummarize ==
    LET UsersSchema == <<Col(n_id, t_bigint), Col(n_name, t_varchar), Col(n_email, t_varchar)>>
        OrdersSchema == <<Col(n_id, t_bigint), Col(n_user_id, t_bigint), Col(n_amount, t_double)>>
        ParquetSchema == <<Col(n_id, t_bigint), Col(n_value, t_double)>>
        \* a table that can be read; one that DESCRIBE still answers while COUNT(*)
        \* fails on its data; one that is gone, so that both statements fail
        SummarizedRelations(sch) ==
            {Relation(sch, n, TRUE, TRUE) : n \in 0..MaxSummaryRows}
            \cup {Relation(sch, 0, FALSE, TRUE), Relation(sch, 0, FALSE, FALSE)}
        \* the second table of the database: orders, or a table whose name is not a
        \* safe identifier
        SecondTables ==
            LET n_sales_2024 == <<"s","a","l","e","s","/","2","0","2","4">>
            IN  {n_orders, n_sales_2024}
    IN  /\ relname = n_pq
        /\ schema = ParquetSchema
        /\ rows \in BagsUpTo(RowsOver({Val(1)}, 2), 1)
        /\ call = NoCall
        /\ result = NoResult
        /\ stmts = <<>>
        /\ zdivs = 0
        /\ files = Directory
        /\ history = <<>>
        /\ max_history = DefaultMaxHistory
        /\ \E second \in SecondTables, db_first \in BOOLEAN :
              /\ \E ru \in SummarizedRelations(UsersSchema),
                    ro \in SummarizedRelations(OrdersSchema) :
                    catalog = (Qualified(n_users, n_db) :> ru) @@ (Qualified(second, n_db) :> ro)
              /\ registry = IF db_first
                            THEN <<SqliteSource(n_db, <<n_users, second>>), FileSource(n_pq)>>
                            ELSE <<FileSource(n_pq), SqliteSource(n_db, <<n_users, second>>)>>

NextSummarize == Summarize

SpecSummarize == InitSummarize /\ [][NextSummarize]_vars

-----------------------------------------------------------------------------
(* Specification of the source registry: connect and disconnect calls on a
   new registry, over a directory holding a SQLite database and a Parquet
   file *)

InitRegistry ==
    /\ relname = None
    /\ schema = <<>>
    /\ rows = EmptyBag
    /\ call = NoCall
    /\ result = NoResult
    /\ stmts = <<>>
    /\ zdivs = 0
    /\ catalog = NoRelations
    /\ registry = <<>>
    /\ files = Directory
    /\ history = <<>>
    /\ max_history = DefaultMaxHistory

NextRegistry ==
    \/ \E name \in {n_db \o <<" ">>, <<"D","B">>, n_db \o DropTableSuffix},
          source_type \in {<<"s","q","l","i","t","e">>, <<"P","a","r","q","u","e","t">>,
                           <<"x","l","s">>},
          path \in {<<"s",".","d","b">>, <<"/","w","/","p",".","p","q">>, <<"/","w","/","m">>} :
          Connect(name, source_type, path)
    \/ \E name \in {n_db, <<"D","B">>, n_db \o DropTableSuffix} : Disconnect(name)
    \/ \E output_path \in {<<"o",".","p","q">>, <<"o","u","t">> \o DropTableSuffix \o <<"\"",".","p","q">>},
          format \in {<<"P","a","r","q","u","e","t">>, <<"x","l","s","x">>} :
          ExportData(<<"S","E","L","E","C","T"," ","1",";">>, output_path, format)

SpecRegistry == InitRegistry /\ [][NextRegistry]_vars

-----------------------------------------------------------------------------
(* Specification of a recipe store: recipes are pushed to a new store of
   any capacity up to MaxHistory, each created after the one before *)

InitRecipes ==
    /\ relname = None
    /\ schema = <<>>
    /\ rows = EmptyBag
    /\ call = NoCall
    /\ result = NoResult
    /\ stmts = <<>>
    /\ zdivs = 0
    /\ catalog = NoRelations
    /\ registry = <<>>
    /\ files = Directory
    /\ history = <<>>
    /\ max_history \in 0..MaxHistory

NextRecipes ==
    LET pushed == IF call.op = "push" THEN call.recipe.created ELSE 0
    IN /\ pushed < MaxPushes
       /\ \E chart_type \in {"bar", "line", "scatter", "histogram"} :
             Push([created |-> pushed + 1, chart_type |-> chart_type])

SpecRecipes == InitRecipes /\ [][NextRecipes]_vars

-----------------------------------------------------------------------------
(* Specification of the tools called with arbitrary identifier texts on a
   parquet view *)

InitIdentifiers ==
    LET IdentifierSchemas ==
            LET n_amount_usd == <<"a","m","o","u","n","t"," ","(","u","s","d",")">>
            IN  { <<Col(n_created_at, t_timestamp), Col(n_value, t_double)>>,
                  <<Col(n_value, t_double), Col(n_amount_usd, t_double)>> }
        IdentifierRows(sch) ==
            IF sch[1].column = n_created_at
            THEN {<<Val(h), v>> : h \in {0, 24}, v \in {NULL, Val(0), Val(10)}}
            ELSE RowsOver({NULL, Val(-1), Val(10)}, 2)
    IN  /\ relname = n_pq
        /\ schema \in IdentifierSchemas
        /\ rows \in BagsUpTo(IdentifierRows(schema), MaxIdentifierRows)
        /\ call = NoCall
        /\ result = NoResult
        /\ stmts = <<>>
        /\ zdivs = 0
        /\ files = Directory
        /\ history = <<>>
        /\ max_history = DefaultMaxHistory
        /\ catalog = NoRelations
        /\ registry = <<FileSource(relname)>>

NextIdentifiers ==
    \/ \E table \in TableArgs, source \in SourceArgs : DetectQualityIssuesOn(table, source)
    \/ \E table \in TableArgs, source \in SourceArgs : ProfileTable(table, source)
    \/ \E table_a, table_b \in TableArgs, source_b \in SourceArgs :
           CompareSchemas(table_a, table_b, None, source_b)
    \/ \E table \in TableArgs, column \in ColumnArgs,
          time_column \in TimeColumnArgs, source \in SourceArgs :
           DetectAnomaliesOn(table, column, time_column, source, <<3, 1>>)

SpecIdentifiers == InitIdentifiers /\ [][NextIdentifiers]_vars

-----------------------------------------------------------------------------
(* Properties of detect_quality_issues *)

Scanned == call.op = "detect_quality_issues"

Columns == 1..Len(schema)

\* the positions in the returned issues of the issues of type t about the i-th column
IssuesAbout(t, i) ==
    {k \in 1..Len(result.issues) :
        /\ result.issues[k].type = t
        /\ result.issues[k].column = schema[i].column}

IssueTypes == {result.issues[k].type : k \in 1..Len(result.issues)}

\* two distinct rows of the table agree on every column that is not id-like
TwoRowsAgreeOutsideIds ==
    \E r1, r2 \in DOMAIN rows :
        /\ r1 # r2 \/ rows[r1] >= 2
        /\ \A i \in Columns : ~IsIdLike(schema[i].column) => r1[i] = r2[i]

\* C1: in a non-empty table with an id-like and a non-id column, two
\* distinct rows that agree on every non-id column make the scan report a
\* 'duplicates' or a 'semantic_duplicates' issue.
C1_DuplicateRowsReported ==
    ( /\ Scanned
      /\ \E i \in Columns : IsIdLike(schema[i].column)
      /\ \E i \in Columns : ~IsIdLike(schema[i].column)
      /\ TwoRowsAgreeOutsideIds )
    => IssueTypes \cap {"duplicates", "semantic_duplicates"} # {}

\* rows that differ only in the id column: reported as semantic duplicates
C1_Witness ==
    /\ Scanned
    /\ \E i \in Columns : IsIdLike(schema[i].column)
    /\ \E r1, r2 \in DOMAIN rows :
          r1 # r2 /\ \A i \in Columns : ~IsIdLike(schema[i].column) => r1[i] = r2[i]
    /\ \A r \in DOMAIN rows : rows[r] = 1
    /\ "semantic_duplicates" \in IssueTypes

\* C2: with row_count > 0 the scan emits exactly one 'high_null_rate' issue
\* for a column iff more than 5% of the rows are NULL in it (none at exactly
\* 5%); the severity is 'high' iff more than 30% are NULL, else 'medium',
\* and null_count is the number of rows that are NULL in the column.
C2_HighNullRate ==
    (Scanned /\ CountStar(rows) > 0) =>
    \A i \in Columns :
        LET total == CountStar(rows)
            nulls == total - CountStar(Restrict(rows, {r \in DOMAIN rows : r[i] # NULL}))
        IN /\ Cardinality(IssuesAbout("high_null_rate", i)) = (IF 20 * nulls > total THEN 1 ELSE 0)
           /\ \A k \in IssuesAbout("high_null_rate", i) :
                /\ result.issues[k].null_count = nulls
                /\ result.issues[k].severity = (IF 10 * nulls > 3 * total THEN "high" ELSE "medium")

\* one column at exactly 5% NULLs (1 of 20, not reported), the other at
\* exactly 30% (6 of 20, reported as 'medium')
C2_Witness ==
    /\ Scanned
    /\ CountStar(rows) = 20
    /\ NullCount(rows, 1) = 1 /\ IssuesAbout("high_null_rate", 1) = {}
    /\ NullCount(rows, 2) = 6
    /\ \E k \in IssuesAbout("high_null_rate", 2) : result.issues[k].severity = "medium"

\* the columns of the modelled schemas on which Python's substring tests
\* select the negative-value check: a numeric declared type and a name
\* containing a positive keyword, both case-insensitively
NegativeCheckedColumns ==
    { Col(<<"a","m","o","u","n","t">>, t_double),
      Col(<<"T","o","t","a","l","_","C","o","s","t">>, t_bigint) }

\* C3: an 'unexpected_negatives' issue is emitted for a column iff its type
\* is numeric, its name contains a positive keyword and some row is < 0 in
\* it; at most one per column, severity 'high', negative_count = number of
\* rows < 0.
C3_UnexpectedNegatives ==
    Scanned =>
    \A i \in Columns :
        LET negatives == {r \in DOMAIN rows : r[i] # NULL /\ r[i][1] < 0}
            expected == schema[i] \in NegativeCheckedColumns /\ negatives # {}
        IN /\ Cardinality(IssuesAbout("unexpected_negatives", i)) = (IF expected THEN 1 ELSE 0)
           /\ \A k \in IssuesAbout("unexpected_negatives", i) :
                /\ result.issues[k].severity = "high"
                /\ result.issues[k].negative_count = CountStar([r \in negatives |-> rows[r]])

\* one negative amount among positive ones: one issue with negative_count 1
C3_Witness ==
    /\ Scanned
    /\ CountStar(rows) = 3
    /\ \E i \in Columns :
        /\ schema[i].column = <<"a","m","o","u","n","t">>
        /\ \E r \in DOMAIN rows : r[i] = Val(1)
        /\ \E k \in IssuesAbout("unexpected_negatives", i) : result.issues[k].negative_count = 1

\* C4: a 'constant_column' issue (severity 'low') is emitted for a column
\* iff COUNT(DISTINCT column) = 1 and row_count > 1; never for row_count <= 1.
C4_ConstantColumn ==
    Scanned =>
    \A i \in Columns :
        LET distinct_values == {r[i] : r \in DOMAIN rows} \ {NULL}
            expected == Cardinality(distinct_values) = 1 /\ CountStar(rows) > 1
        IN /\ Cardinality(IssuesAbout("constant_column", i)) = (IF expected THEN 1 ELSE 0)
           /\ \A k \in IssuesAbout("constant_column", i) : result.issues[k].severity = "low"
           /\ CountStar(rows) <= 1 => IssuesAbout("constant_column", i) = {}

\* a single-row table: its columns hold one value each and none is reported
C4_Witness ==
    /\ Scanned
    /\ CountStar(rows) = 1
    /\ \E i \in Columns : DistinctCount(rows, i) = 1
    /\ "constant_column" \notin IssueTypes

\* C5: on an empty table the scan returns row_count 0, no issues and
\* issue_count 0, having sent only the schema and the row-count statements.
C5_EmptyTable ==
    (Scanned /\ DOMAIN rows = {}) =>
        /\ result = [table |-> relname, row_count |-> 0, issues |-> <<>>, issue_count |-> 0]
        /\ stmts = <<Stmt("describe", None), Stmt("row_count", None)>>

C5_Witness == Scanned /\ DOMAIN rows = {} /\ Len(schema) > 1 /\ result.issue_count = 0

\* the position in the schema of the column an issue is about
IssueColumn(issue) == CHOOSE i \in Columns : schema[i].column = issue.column

\* the place of an issue in discovery order: the check that finds it, then
\* for the per-column checks the column and the check within the column
DiscoveryPlace(issue) ==
    CASE issue.type = "duplicates" -> <<1, 0, 0>>
      [] issue.type = "semantic_duplicates" -> <<2, 0, 0>>
      [] issue.type = "high_null_rate" -> <<3, IssueColumn(issue), 1>>
      [] issue.type = "constant_column" -> <<3, IssueColumn(issue), 2>>
      [] issue.type = "unexpected_negatives" -> <<3, IssueColumn(issue), 3>>

Before(p, q) ==
    \/ p[1] < q[1]
    \/ p[1] = q[1] /\ p[2] < q[2]
    \/ p[1] = q[1] /\ p[2] = q[2] /\ p[3] < q[3]

\* C11: the issues are in discovery order, 'duplicates' first, then
\* 'semantic_duplicates', then the per-column issues by column in schema
\* order and within a column high_null_rate, constant_column,
\* unexpected_negatives; issue_count is the length of the sequence.
C11_DiscoveryOrder ==
    Scanned =>
        /\ \A k \in 1..(Len(result.issues) - 1) :
              Before(DiscoveryPlace(result.issues[k]), DiscoveryPlace(result.issues[k + 1]))
        /\ result.issue_count = Len(result.issues)

\* both duplicate issues, an issue about the first column and the three
\* kinds of issue about the second
C11_Witness ==
    /\ Scanned
    /\ Len(result.issues) = 6
    /\ result.issues[1].type = "duplicates"
    /\ result.issues[2].type = "semantic_duplicates"
    /\ IssuesAbout("unexpected_negatives", 1) = {3}
    /\ IssuesAbout("high_null_rate", 2) = {4}
    /\ IssuesAbout("constant_column", 2) = {5}
    /\ IssuesAbout("unexpected_negatives", 2) = {6}

\* the rows that agree with r on the columns that are not id-like
AgreeOutsideIds(r) ==
    {q \in DOMAIN rows : \A i \in Columns : ~IsIdLike(schema[i].column) => q[i] = r[i]}

\* the groups of more than one row under grouping by the non-id columns
SemanticGroupsOfTable ==
    {AgreeOutsideIds(r) : r \in {q \in DOMAIN rows : CountStar(Restrict(rows, AgreeOutsideIds(q))) > 1}}

\* the groups of more than one fully identical row
ExactGroupsOfTable == {r \in DOMAIN rows : rows[r] > 1}

SemanticCheckSent == \E k \in 1..Len(stmts) : stmts[k].kind = "semantic_groups"

IssuesOfType(t) == {k \in 1..Len(result.issues) : result.issues[k].type = t}

\* C12: the semantic-duplicate check is run only when some column is
\* id-like and some column is not; at most one 'semantic_duplicates' issue
\* is emitted, and one is emitted iff the check runs and the number of
\* groups of more than one row under grouping by the non-id columns is
\* nonzero and differs from the number of exact-duplicate groups.
C12_SemanticDuplicates ==
    Scanned =>
        LET mixed == /\ \E i \in Columns : IsIdLike(schema[i].column)
                     /\ \E i \in Columns : ~IsIdLike(schema[i].column)
            sem == Cardinality(SemanticGroupsOfTable)
            dup == Cardinality(ExactGroupsOfTable)
        IN /\ SemanticCheckSent => mixed
           /\ Cardinality(IssuesOfType("semantic_duplicates"))
                 = (IF mixed /\ sem > 0 /\ sem # dup THEN 1 ELSE 0)
           /\ \A k \in IssuesOfType("semantic_duplicates") :
                 result.issues[k].duplicate_groups = sem

\* two exact-duplicate groups that fall into one group outside the id
\* column: reported, with one group
C12_Witness ==
    /\ Scanned
    /\ Cardinality(ExactGroupsOfTable) = 2
    /\ \E k \in IssuesOfType("semantic_duplicates") : result.issues[k].duplicate_groups = 1

\* C13: on a non-empty table one 'duplicates' issue is emitted iff there is
\* a group of more than one fully identical row; its severity is 'high' iff
\* the number of such groups is more than 1% of row_count, else 'medium',
\* and 'semantic_duplicates' follows the same rule with its own count.
C13_DuplicatesSeverity ==
    (Scanned /\ CountStar(rows) > 0) =>
        LET dup == Cardinality(ExactGroupsOfTable)
        IN /\ Cardinality(IssuesOfType("duplicates")) = (IF dup > 0 THEN 1 ELSE 0)
           /\ \A k \in IssuesOfType("duplicates") :
                 /\ result.issues[k].duplicate_groups = dup
                 /\ result.issues[k].severity
                       = (IF 100 * dup > CountStar(rows) THEN "high" ELSE "medium")
           /\ \A k \in IssuesOfType("semantic_duplicates") :
                 result.issues[k].severity
                    = (IF 100 * result.issues[k].duplicate_groups > CountStar(rows)
                       THEN "high" ELSE "medium")

\* a table of exactly 100 rows: its one exact-duplicate group is 'medium',
\* its two semantic groups are 'high'
C13_Witness ==
    /\ Scanned
    /\ CountStar(rows) = 100
    /\ \E k \in IssuesOfType("duplicates") : result.issues[k].severity = "medium"
    /\ \E k \in IssuesOfType("semantic_duplicates") : result.issues[k].severity = "high"

-----------------------------------------------------------------------------
(* Properties of detect_anomalies *)

Detected == call.op = "detect_anomalies"
RowLevelMode == Detected /\ call.time_column = None
TimeMode == Detected /\ call.time_column # None

Raised == "raised" \in DOMAIN result

\* the analysed column of the last call, and its time column
ValueCol == ColumnIndex(schema, call.column)
TimeCol == ColumnIndex(schema, call.time_column)

\* |z|^2 >= threshold^2 for z^2 = num / den
SquareAtLeast(num, den, zt) == num * zt[2] * zt[2] >= zt[1] * zt[1] * den

\* the rows with a non-null value, their number, the sum of their values
\* and N^2 times the sum of their squared deviations from the mean
ValueRows == {r \in DOMAIN rows : r[ValueCol] # NULL}
ValueCount == SumFn([r \in ValueRows |-> rows[r]])
ValueSum == SumFn([r \in ValueRows |-> r[ValueCol][1] * rows[r]])
ValueDev(r) == ValueCount * r[ValueCol][1] - ValueSum
ValueSquares == SumFn([r \in ValueRows |-> ValueDev(r) * ValueDev(r) * rows[r]])

\* |v - mean| / stddev >= z_threshold with the population stddev (divisor N)
PopulationOutlier(r) ==
    SquareAtLeast(ValueDev(r) * ValueDev(r) * ValueCount, ValueSquares, call.z_threshold)

\* C6: in row-level mode with stddev > 0 the flagged rows are exactly the
\* rows whose value has |v - mean| / stddev >= z_threshold for the
\* population mean and the population standard deviation (divisor N) of the
\* non-null values. (Stated for tables within the 100-row cap.)
C6_RowLevelPopulation ==
    (RowLevelMode /\ ValueSquares > 0 /\ CountStar(rows) <= RowLevelLimit) =>
        {result.anomalies[k].row : k \in 1..Len(result.anomalies)}
            = {r \in ValueRows : PopulationOutlier(r)}

\* C7: row-level mode returns at most 100 anomalies, in non-increasing
\* order of |z_score|, whatever the identifiers are.
C7_RowLevelCap ==
    RowLevelMode =>
        /\ Len(result.anomalies) <= RowLevelLimit
        /\ \A k \in 1..(Len(result.anomalies) - 1) :
              /\ result.anomalies[k].z_score.square[2] = result.anomalies[k + 1].z_score.square[2]
              /\ result.anomalies[k].z_score.square[1] >= result.anomalies[k + 1].z_score.square[1]

\* the day buckets of the last call: the days that hold a non-null value,
\* the sum of a day, the number of days, the sum of the daily sums and
\* N^2 times the sum of their squared deviations from the mean
DaySet == {r[TimeCol][1] \div HoursPerDay : r \in ValueRows}
DaySum(d) ==
    SumFn([r \in {x \in ValueRows : x[TimeCol][1] \div HoursPerDay = d} |->
              r[ValueCol][1] * rows[r]])
DayCount == Cardinality(DaySet)
DayTotal == SumFn([d \in DaySet |-> DaySum(d)])
DayDev(d) == DayCount * DaySum(d) - DayTotal
DaySquares == SumFn([d \in DaySet |-> DayDev(d) * DayDev(d)])

\* stddev > 0 and |z| >= z_threshold for day d, population statistics
DayIsOutlier(d) ==
    /\ DaySquares > 0
    /\ SquareAtLeast(DayDev(d) * DayDev(d) * DayCount, DaySquares, call.z_threshold)

C9_TooFewDays ==
    (TimeMode /\ DayCount < 3) =>
        /\ ~Raised
        /\ result.anomalies = <<>>
        /\ \/ "anomaly_count" \in DOMAIN result /\ result.anomaly_count = 0
           \/ "message" \in DOMAIN result

\* two days with different sums, z_threshold 1: both would be at |z| = 1
C9_Witness ==
    /\ TimeMode
    /\ DayCount = 2
    /\ DaySquares > 0
    /\ call.z_threshold = <<1, 1>>
    /\ result.anomalies = <<>>

\* the analysed values of the last call have standard deviation 0: no
\* value, one value or all values equal
ZeroDeviation ==
    IF call.time_column = None
    THEN Cardinality({r[ValueCol] : r \in ValueRows}) <= 1
    ELSE Cardinality({DaySum(d) : d \in DaySet}) <= 1

\* no division by the standard deviation: none in the loop, no outlier
\* query sent
NoDivision == zdivs = 0 /\ \A k \in 1..Len(stmts) : stmts[k].kind # "outliers"

\* every reported anomaly has |z| >= z_threshold, and stddev > 0
OnlyOutliers ==
    result.anomalies # <<>> =>
        /\ ~ZeroDeviation
        /\ \A k \in 1..Len(result.anomalies) :
              SquareAtLeast(result.anomalies[k].z_score.square[1],
                            result.anomalies[k].z_score.square[2], call.z_threshold)

-----------------------------------------------------------------------------
(* Properties of compare_schemas *)

Compared == call.op = "compare_schemas"

\* the schema in the backend of a table compare_schemas was called with
ComparedSchema(table, source) ==
    IF table = relname THEN schema ELSE catalog[Qualified(table, source)].schema

SchemaA == ComparedSchema(call.table_a, call.source_a)
SchemaB == ComparedSchema(call.table_b, call.source_b)

ColumnNames(sch) == {sch[i].column : i \in 1..Len(sch)}

\* the declared type of column c in sch
DeclaredType(sch, c) == sch[CHOOSE i \in 1..Len(sch) : sch[i].column = c].type

\* the entries of a list of the report, which names no column twice
Entries(list) == {list[k] : k \in 1..Len(list)}
NoColumnTwice(list) == \A j, k \in 1..Len(list) : list[j].column = list[k].column => j = k

\* the report is the diff of the two schemas
IsSchemaDiff ==
    /\ Entries(result.columns_added_in_b)
          = {[column |-> c, type |-> DeclaredType(SchemaB, c)] :
                c \in ColumnNames(SchemaB) \ ColumnNames(SchemaA)}
    /\ Entries(result.columns_removed_in_b)
          = {[column |-> c, type |-> DeclaredType(SchemaA, c)] :
                c \in ColumnNames(SchemaA) \ ColumnNames(SchemaB)}
    /\ Entries(result.type_changes)
          = {[column |-> c, type_a |-> DeclaredType(SchemaA, c),
              type_b |-> DeclaredType(SchemaB, c)] :
                c \in {x \in ColumnNames(SchemaA) \cap ColumnNames(SchemaB) :
                          DeclaredType(SchemaA, x) # DeclaredType(SchemaB, x)}}
    /\ NoColumnTwice(result.columns_added_in_b)
    /\ NoColumnTwice(result.columns_removed_in_b)
    /\ NoColumnTwice(result.type_changes)
    /\ result.identical = ( /\ result.columns_added_in_b = <<>>
                            /\ result.columns_removed_in_b = <<>>
                            /\ result.type_changes = <<>> )
    /\ result.identical = (result.diff_count = 0)
    /\ (call.table_a = call.table_b /\ call.source_a = call.source_b)
          => result.identical /\ result.diff_count = 0

\* a call with the two tables exchanged returns the mirrored report
MirrorsPreviousCall ==
    ( /\ Compared
      /\ call'.op = "compare_schemas"
      /\ call'.table_a = call.table_b /\ call'.source_a = call.source_b
      /\ call'.table_b = call.table_a /\ call'.source_b = call.source_a )
    => /\ result'.columns_added_in_b = result.columns_removed_in_b
       /\ result'.columns_removed_in_b = result.columns_added_in_b
       /\ result'.type_changes
             = [k \in 1..Len(result.type_changes) |->
                  [column |-> result.type_changes[k].column,
                   type_a |-> result.type_changes[k].type_b,
                   type_b |-> result.type_changes[k].type_a]]
       /\ result'.identical = result.identical
       /\ result'.diff_count = result.diff_count

\* C14: compare_schemas(A, B) reports as added the columns of B not in A,
\* as removed the columns of A not in B, as type changes the common columns
\* whose declared types differ; identical holds iff the three lists are
\* empty iff diff_count = 0; the report of (B, A) is that of (A, B) with
\* added and removed exchanged; a table compared with itself is identical.
C14_SchemaDiff == [](Compared => IsSchemaDiff) /\ [][MirrorsPreviousCall]_vars

\* orders against its drifted version: two columns removed, one added, one
\* of a changed type
C14_Witness ==
    /\ Compared
    /\ call.table_a # call.table_b
    /\ Len(result.columns_removed_in_b) = 2
    /\ Len(result.columns_added_in_b) = 1
    /\ Len(result.type_changes) = 1
    /\ result.diff_count = 4
    /\ ~result.identical

-----------------------------------------------------------------------------
(* Properties of profile_table *)

Profiled == call.op = "profile_table" /\ ~Raised

\* rate, in ten-thousandths, is count / total rounded to 4 decimals
IsRounded4(rate, count, total) ==
    LET error == 10000 * count - rate * total
    IN 2 * error <= total /\ 2 * error >= 0 - total

\* the rows of the table that are NULL in column i, and its distinct values
NullsIn(i) == CountStar(rows) - CountStar(Restrict(rows, {r \in DOMAIN rows : r[i] # NULL}))
DistinctIn(i) == Cardinality({r[i] : r \in DOMAIN rows} \ {NULL})

\* C15: in every column profile null_rate and unique_rate lie in [0, 1];
\* with row_count > 0 they are null_count/row_count and
\* distinct_count/row_count rounded to 4 decimals, with row_count = 0 both
\* are 0 and nothing is divided.
C15_Rates ==
    Profiled =>
        /\ result.row_count = CountStar(rows)
        /\ Len(result.columns) = Len(schema)
        /\ \A i \in 1..Len(result.columns) :
              LET p == result.columns[i]
              IN /\ p.null_rate >= 0 /\ p.null_rate <= 10000
                 /\ p.unique_rate >= 0 /\ p.unique_rate <= 10000
                 /\ p.null_count = NullsIn(i)
                 /\ p.distinct_count = DistinctIn(i)
                 /\ result.row_count > 0 =>
                       /\ IsRounded4(p.null_rate, p.null_count, result.row_count)
                       /\ IsRounded4(p.unique_rate, p.distinct_count, result.row_count)
                 /\ result.row_count = 0 => p.null_rate = 0 /\ p.unique_rate = 0
        /\ result.row_count = 0 => zdivs = 0

\* three rows, one of them NULL in a column that holds two distinct values:
\* 0.3333 and 0.6667
C15_Witness ==
    /\ Profiled
    /\ result.row_count = 3
    /\ \E i \in 1..Len(result.columns) :
          /\ result.columns[i].null_rate = 3333
          /\ result.columns[i].unique_rate = 6667

-----------------------------------------------------------------------------
(* Properties of summarize *)

Summarized == call.op = "summarize"

\* the relation of the backend that holds a table of a registered source
TableRelation(src, table) ==
    IF src.source_type = "sqlite" THEN catalog[Qualified(table, src.name)]
    ELSE Relation(schema, CountStar(rows), TRUE, TRUE)

\* the number of rows of the tables that can be counted
RECURSIVE CountableRows(_)
CountableRows(S) ==
    IF S = {} THEN 0
    ELSE LET q == CHOOSE x \in S : TRUE
         IN (IF catalog[q].countable THEN catalog[q].row_count ELSE 0) + CountableRows(S \ {q})

\* C16: summarize returns an entry for every table of every connected
\* source even when a statement about some table fails; a table that cannot
\* be counted has row_count -1 and adds nothing to total_rows, which is the
\* sum over the tables that can be counted; no failure aborts the summary.
C16_SummaryTolerates ==
    Summarized =>
        /\ ~Raised
        /\ Len(result.sources) = Len(registry)
        /\ \A k \in 1..Len(registry) :
              /\ result.sources[k].name = registry[k].name
              /\ Len(result.sources[k].tables) = Len(registry[k].tables)
              /\ \A j \in 1..Len(registry[k].tables) :
                    LET entry == result.sources[k].tables[j]
                        relation == TableRelation(registry[k], registry[k].tables[j])
                    IN /\ entry.name = registry[k].tables[j]
                       /\ entry.row_count
                             = (IF relation.countable THEN relation.row_count ELSE 0 - 1)
        /\ result.total_rows = CountStar(rows) + CountableRows(DOMAIN catalog)

\* the summary is given whenever every table has a safe name and can be described
SummaryWhenDescribable ==
    ( /\ Summarized
      /\ \A q \in DOMAIN catalog : catalog[q].describable
      /\ \A k \in 1..Len(registry) : \A j \in 1..Len(registry[k].tables) :
            ~Raises(validate_identifier(registry[k].tables[j])) )
    => /\ ~Raised
       /\ result.total_rows = CountStar(rows) + CountableRows(DOMAIN catalog)
       /\ \E k \in 1..Len(registry) : Len(result.sources[k].tables) = Len(registry[k].tables)

-----------------------------------------------------------------------------
(* Properties of the tools called with arbitrary identifier texts *)

\* the identifier arguments of the call made
AnomalyArguments == {call.table, call.column, call.time_column, call.source} \ {None}

\* a quote, a semicolon or a comment sequence
HasQuoteSemicolonOrComment(v) ==
    \/ \E i \in 1..Len(v) : v[i] \in {"'", "\"", ";"}
    \/ HasDangerousSequence(v)

\* the statement st of the detect_anomalies call made holds the argument a
Mentions(st, a) ==
    \/ a \in {call.table, call.source}
    \/ st.column = a
    \/ st.kind = "daily_aggregation" /\ call.time_column = a

\* C18: when an identifier argument of detect_anomalies (column, table,
\* time_column or source) holds a quote, a semicolon or a comment sequence,
\* the call raises ValueError "disallowed characters" and no statement
\* holding that value is sent to the backend.
C18_AnomaliesRejectUnsafe ==
    Detected =>
        \A a \in AnomalyArguments :
            HasQuoteSemicolonOrComment(a) =>
                /\ Raises(result)
                /\ result.raised = "ValueError"
                /\ result.message = "disallowed characters"
                /\ \A k \in 1..Len(stmts) : ~Mentions(stmts[k], a)

\* the table and source identifiers the caller supplied
SuppliedIdentifiers ==
    IF call.op = "compare_schemas"
    THEN {call.table_a, call.table_b, call.source_a, call.source_b} \ {None}
    ELSE IF call.op \in {"detect_quality_issues", "profile_table"}
    THEN {call.table, call.source} \ {None}
    ELSE {}

RegistryKept ==
    call'.op \in {"detect_quality_issues", "profile_table", "compare_schemas"}
        => registry' = registry

\* C19: when a table or source identifier supplied to detect_quality_issues,
\* profile_table or compare_schemas (table_b and source_b included) is not a
\* safe identifier, the call raises ValueError, no statement has been sent
\* to the backend, and the registry is as it was.
C19_InvalidIdentifierFirst ==
    /\ [](\A a \in SuppliedIdentifiers :
              Raises(validate_identifier(a)) =>
                  /\ Raises(result)
                  /\ result.raised = "ValueError"
                  /\ stmts = <<>>)
    /\ [][RegistryKept]_vars

\* the identifiers in identifier position of the statements the call sent
InterpolatedIdentifiers ==
    IF stmts = <<>> THEN {}
    ELSE ({call.table, call.source} \ {None})
         \cup ({stmts[k].column :
                   k \in {j \in 1..Len(stmts) : "column" \in DOMAIN stmts[j]}} \ {None})
         \cup (IF Detected THEN {call.time_column} \ {None} ELSE {})

\* C20: every identifier that detect_quality_issues, profile_table and
\* detect_anomalies put in identifier position of an executed statement
\* (table, source and column names, those read from the backend schema
\* included) is a text validate_identifier accepts.
C20_ValidatedIdentifiers ==
    call.op \in {"detect_quality_issues", "profile_table", "detect_anomalies"} =>
        \A a \in InterpolatedIdentifiers : ~Raises(validate_identifier(a))

\* a call of one of the three tools has returned a report
ToolReturned ==
    /\ call'.op \in {"detect_quality_issues", "profile_table", "detect_anomalies"}
    /\ ~Raises(result')

Untouched == UNCHANGED <<relname, schema, rows, catalog, registry, files, history, max_history>>

\* the call just made repeats the previous one
SameCallAgain == ToolReturned /\ call' = call

\* C17: detect_quality_issues, profile_table and detect_anomalies are
\* read-only: when one of them returns, the table, the backend catalog and
\* the registry are as before the call, and a call repeated on an unchanged
\* table returns the report of the first.
C17_ReadOnly ==
    /\ [][ToolReturned => Untouched]_vars
    /\ [][(SameCallAgain /\ Untouched) => result' = result]_vars

-----------------------------------------------------------------------------
(* Properties of the source registry *)

\* the catalog object connect creates for a registered source
ObjectOf(source) ==
    CatalogKey(IF source.source_type = "sqlite" THEN "database" ELSE "view", source.name)

\* C21: after any sequence of connect and disconnect calls, failed ones
\* included, every attached database and every view of the catalog belongs
\* to a source that is registered; a disconnect that returned has removed the
\* source and its catalog object, and a connect that raised has left no
\* catalog object of its own
C21_CatalogOfRegistered ==
    /\ \A key \in DOMAIN catalog :
          \E k \in 1..Len(registry) : key = ObjectOf(registry[k])
    /\ call.op = "disconnect" /\ ~Raises(result)
          => /\ ~IsRegistered(registry, Strip(call.name))
             /\ \A kind \in {"database", "view"} :
                   CatalogKey(kind, Strip(call.name)) \notin DOMAIN catalog
                   \/ \E k \in 1..Len(registry) :
                         CatalogKey(kind, Strip(call.name)) = ObjectOf(registry[k])

\* the sources registered under the name a call was given
RegisteredAs(name) ==
    {k \in 1..Len(registry) : registry[k].name = Strip(name)}

\* C22: a connect under a name that is registered raises ValueError
\* 'already registered', and a disconnect of a name that is not registered
\* raises ValueError, 'not registered' when the name is a valid identifier;
\* both send no statement and leave the registered sources and the catalog
\* exactly as they were
C22_GuardFailures ==
    [][ /\ call'.op = "connect" /\ RegisteredAs(call'.name) # {}
           => /\ result' = [raised |-> "ValueError", message |-> "already registered"]
              /\ stmts' = <<>>
              /\ registry' = registry
              /\ catalog' = catalog
        /\ call'.op = "disconnect" /\ RegisteredAs(call'.name) = {}
           => /\ Raises(result')
              /\ result'.raised = "ValueError"
              /\ ~Raises(validate_identifier(call'.name))
                    => result'.message = "not registered"
              /\ stmts' = <<>>
              /\ registry' = registry
              /\ catalog' = catalog ]_vars

\* a second connect under a registered name was refused and the registered
\* source still has its catalog object
C22_Witness ==
    /\ call.op = "connect"
    /\ result = [raised |-> "ValueError", message |-> "already registered"]
    /\ \E k \in RegisteredAs(call.name) : ObjectOf(registry[k]) \in DOMAIN catalog

-----------------------------------------------------------------------------
(* Properties of SourceRegistry.query *)

\* C23: the texts detect_anomalies passes to query() hold no LIMIT clause
\* of their own, so each of them is executed with the LIMIT appended and
\* answers with at most limit rows
C23_QueryCapped ==
    RowLevelMode =>
        \A k \in 1..Len(stmts) :
            stmts[k].kind = "outliers"
                => /\ stmts[k].limit = RowLevelLimit
                   /\ Len(result.anomalies) <= stmts[k].limit

-----------------------------------------------------------------------------
(* Properties of RecipeStore *)

\* the number of recipes pushed so far
Pushed == IF call.op = "push" THEN call.recipe.created ELSE 0

\* the number of recipes a store of this capacity holds of them
Kept == IF Pushed < max_history THEN Pushed ELSE max_history

\* C24: after k pushes the store holds at most max_history recipes, namely
\* the most recent min(k, max_history) in push order; last is the recipe
\* pushed most recently; get and last return None on an empty store, and
\* get returns None for every index out of range
C24_BoundedHistory ==
    /\ Len(history) <= max_history
    /\ Len(history) = Kept
    /\ \A i \in 1..Len(history) : history[i].created = Pushed - Kept + i
    /\ Kept > 0 => last(history) = call.recipe
    /\ history = <<>> => last(history) = None /\ get(history, -1) = None
    /\ \A index \in (-MaxHistory - 2)..(MaxHistory + 2) :
          /\ (index >= Len(history) \/ index < -Len(history)) => get(history, index) = None
          /\ (0 <= index /\ index < Len(history)) => get(history, index) = history[index + 1]

\* a store of capacity 3 after five pushes: the first two recipes were evicted
C24_Witness ==
    /\ max_history = 3
    /\ Pushed = 5
    /\ Len(history) = 3
    /\ get(history, 0).created = 3
    /\ last(history).created = 5

-----------------------------------------------------------------------------
(* Properties of export_data *)

\* C25: an export_data call in a supported format whose output path holds a
\* single quote, a double quote, a semicolon or '--' raises ValueError
\* 'disallowed characters', sends no COPY statement and writes no file
C25_ExportRejectsUnsafePath ==
    [][ ( /\ call'.op = "export_data"
          /\ Lower(call'.format) \in {<<"p","a","r","q","u","e","t">>, <<"c","s","v">>}
          /\ \/ \E i \in 1..Len(call'.output_path) : call'.output_path[i] \in {"'", "\"", ";"}
             \/ Contains(call'.output_path, <<"-","-">>) )
        => /\ result' = [raised |-> "ValueError", message |-> "disallowed characters"]
           /\ \A k \in 1..Len(stmts') : stmts'[k].kind # "copy"
           /\ files' = files ]_vars

-----------------------------------------------------------------------------
(* Further properties of detect_quality_issues *)

\* C26: a column reported as 'constant_column' holds one and the same value
\* in all rows of the table; in particular it holds no NULL next to its value
C26_ConstantAcrossAllRows ==
    Scanned =>
        \A i \in Columns :
            IssuesAbout("constant_column", i) # {}
                => Cardinality({r[i] : r \in DOMAIN rows}) = 1

\* two different rows of the table agree on every column that is not
\* id-like (so they differ in an id-like column)
RowsDifferingInIdsOnly ==
    \E r1, r2 \in DOMAIN rows :
        /\ r1 # r2
        /\ \A i \in Columns : ~IsIdLike(schema[i].column) => r1[i] = r2[i]

\* C27: whenever the number of semantic duplicate groups equals the number
\* of exact duplicate groups, no 'semantic_duplicates' issue is emitted,
\* also for a table that holds rows identical on all non-id columns and
\* different in an id-like column
C27_EqualCountHides ==
    (Scanned /\ RowsDifferingInIdsOnly
       /\ Cardinality(SemanticGroupsOfTable) = Cardinality(ExactGroupsOfTable))
        => IssuesOfType("semantic_duplicates") = {}

\* a table with such rows and one group of either kind, the semantic group
\* being larger than the exact one: the check ran and nothing is reported
C27_Witness ==
    /\ Scanned
    /\ RowsDifferingInIdsOnly
    /\ SemanticCheckSent
    /\ Cardinality(SemanticGroupsOfTable) = 1
    /\ Cardinality(ExactGroupsOfTable) = 1
    /\ \E group \in SemanticGroupsOfTable : Cardinality(group) > 1
    /\ IssuesOfType("semantic_duplicates") = {}

\* the statements of a kind the last call sent, and those about a column
StmtsOfKind(kind) == {k \in 1..Len(stmts) : stmts[k].kind = kind}
StmtsAbout(kind, i) == {k \in StmtsOfKind(kind) : stmts[k].column = schema[i].column}

\* the number of statements a scan sends for the schema: schema, row count
\* and exact duplicates, the semantic check if some column is id-like and
\* some is not, and per column two statements and a third for a numeric
\* column with a positive keyword
StatementsForSchema ==
    3 + (IF (\E i \in Columns : IsIdLike(schema[i].column))
            /\ (\E i \in Columns : ~IsIdLike(schema[i].column)) THEN 1 ELSE 0)
      + 2 * Len(schema)
      + Cardinality({i \in Columns : ChecksNegatives(schema, i)})

\* C28 as stated: every scan sends the number of statements its schema
\* determines, whatever the number of rows
C28_AsStated == Scanned => Len(stmts) = StatementsForSchema

\* C28: a scan of a non-empty table sends one schema, one row-count and one
\* exact-duplicate statement, at most one semantic-duplicate statement, and
\* per column one null-count and one distinct-count statement plus one
\* negative-count statement exactly for numeric positive-keyword columns:
\* a number fixed by the schema; a scan of an empty table sends the schema
\* and the row-count statement only; in both cases at most 4 + 3*C
C28_StatementsBySchema ==
    Scanned =>
        /\ Cardinality(StmtsOfKind("describe")) = 1
        /\ Cardinality(StmtsOfKind("row_count")) = 1
        /\ Cardinality(StmtsOfKind("semantic_groups")) <= 1
        /\ Len(stmts) <= 4 + 3 * Len(schema)
        /\ DOMAIN rows = {} => Len(stmts) = 2
        /\ DOMAIN rows # {} =>
              /\ Len(stmts) = StatementsForSchema
              /\ Cardinality(StmtsOfKind("duplicate_groups")) = 1
              /\ \A i \in Columns :
                    /\ Cardinality(StmtsAbout("null_count", i)) = 1
                    /\ Cardinality(StmtsAbout("distinct_count", i)) = 1
                    /\ Cardinality(StmtsAbout("negative_count", i))
                          = (IF ChecksNegatives(schema, i) THEN 1 ELSE 0)

\* a three-row table with an id column and a numeric amount column: all
\* 4 + 3*C - 2 = 11 statements of its schema were sent
C28_Witness ==
    /\ Scanned
    /\ CountStar(rows) = 3
    /\ Len(schema) = 3
    /\ StmtsOfKind("semantic_groups") # {}
    /\ StmtsOfKind("negative_count") # {}
    /\ Len(stmts) = 11

-----------------------------------------------------------------------------
(* Properties of the qualified names *)

\* C29: when profile_table is called for a table of a registered source,
\* with or without the source's name, the relation it counts is the one
\* get_schema describes for these arguments: the call returns a report and
\* its row_count and columns are those of that relation
C29_SameRelation ==
    ( /\ call.op = "profile_table"
      /\ call.source = None
         \/ \E k \in 1..Len(registry) :
               /\ registry[k].name = call.source
               /\ \E j \in 1..Len(registry[k].tables) : registry[k].tables[j] = call.table
      /\ ~Raises(get_schema(call.table, call.source, relname, schema, catalog, registry)) )
    => /\ ~Raises(result)
       /\ result.row_count = CountStar(rows)
       /\ result.column_count
             = Len(get_schema(call.table, call.source, relname, schema, catalog, registry).schema)

-----------------------------------------------------------------------------
(* The range of the z-scores of time-aggregated mode *)

====
